---- MODULE Spec2Model ----
(***************************************************************************)
(* Model of the spatial-reasoning pipeline of local_model_poke:            *)
(*   src/src/pathfinding_executor.py  astar_pathfind, reconstruct_path,    *)
(*                                    calculate_path_from_data             *)
(*   src/src/pathfinding_executor.py  simplify_path                        *)
(*   src/src/pathfinding.py           format_path_instructions             *)
(*   src/src/markdown_vision.py       get_collision_map, get_warp_positions,*)
(*                                    get_npc_positions,                   *)
(*                                    create_pathfinding_data              *)
(*   src/src/collision.py, src/src/smart_pathfinding.py  adjacency         *)
(*                                    classifiers                          *)
(* Positions are pairs <<x, y>>; heap entries are <<f, g, x, y>> as in the *)
(* source.                                                                 *)
(***************************************************************************)
EXTENDS Integers, Sequences, FiniteSets, TLC

\* ------------------------------------------------------------------ bounds
MaxW == 3
MaxH == 2
MaxObst == 2
MaxRadius == 1

\* Map size of the calls in src/test_markdown_system.py
TestMapSize == 30

\* markdown_vision.py:335, "reasonable map size limit" of the block index
BlockIndexLimit == 1024

VARIABLES
    entry,          \* which function the caller invoked:
                    \* "plan" | "astar" | "grid" | "classify" | "pipe" | "format" |
                    \* "loop" | "prompt" | "exit" | "nav" | "exec" | "view" | "reward"
    pc,             \* position in the call
    player,         \* pathfinding_data['player'] / (start_x, start_y)
    target,         \* pathfinding_data['target'] / (goal_x, goal_y)
    map_width,
    map_height,
    npcs,           \* pathfinding_data['npcs'], as a set of positions
    collision_map,  \* pathfinding_data['collision_map']: position -> "True" | "False" | "unknown"
    obstacles,      \* the obstacle set handed to astar_pathfind
    open_set,       \* the heap, as the set of its entries <<f, g, x, y>>
    came_from,      \* position -> <<previous position, direction>>
    g_score,        \* position -> cost
    path,           \* value returned by astar_pathfind
    ret,            \* which return statement of astar_pathfind was executed
    plan_result,    \* value returned by calculate_path_from_data
    pushed,         \* history: heap entries in the order they were pushed
    popped,         \* history: heap entries in the order they were popped
    calls,          \* history: 1 during the first call, 2 during the repeated call
    first_path,     \* history: path returned by the first call
    radius,         \* get_collision_map's radius
    mem_adj,        \* pyboy.memory[0xC2FA..0xC2FD]: raw adjacency bytes by direction
    mem_block,      \* pyboy.memory[0xC800 + block_index]: block index -> block id
    mem_attr,       \* pyboy.memory[0xD3D1 + block_id]: block id -> collision attribute
    fail_kind,      \* which memory read raises: "none" | "block" | "attr"
    fail_pos,       \* the tile whose read raises
    scan,           \* get_collision_map: number of window tiles already visited
    walkable,       \* collision.py get_walkable_directions' result
    collision_grid, \* smart_pathfinding.py get_full_collision_map's result
    ran,            \* history: the classifiers that have returned
    mem_key,        \* pyboy.memory[0xDCB5], [0xDCB6]: <<map_group, map_number>>
    mem_warps,      \* the three warp tables in RAM: [count, data], data a list of <<y, x>>
    mem_objects,    \* the object slots from 0xD4CF: list of [sprite_id, y, x]
    warps,          \* pathfinding_data['warps']: list of positions
    npc_list,       \* pathfinding_data['npcs']: list of positions
    summary,        \* simplify_path's result, as a list of characters and words
    instructions,   \* format_path_instructions' result, as a list of characters and words
    first_ret,      \* history: the return statement the previous plan executed
    first_result,   \* history: the result of the previous plan
    loop_pc,        \* main(): position of the control loop, "stopped" after an exception
    frame_count,    \* main(): frame_count, modulo the trigger period
    ai_thinking,    \* main(): ai_thinking
    ai_queue,       \* main(): ai_queue, the list of responses put and not yet taken
    workers,        \* the AI threads: id -> [pc, reads, torn]
    obs_torn,       \* history: the last finished observation had a tick between its reads
    started,        \* history: number of AI threads started
    consumed,       \* history: number of responses taken from the queue
    last_response,  \* history: the response taken last
    prompt_cache,   \* PromptManager._cache: prompt type -> text
    prompt_files,   \* the files of prompts_dir: prompt type -> text, or "missing"
    file_reads,     \* history: number of times a prompt file was read
    prompt_result,  \* history: the last call of the manager and what it returned
    file_edited,    \* history: the prompt types whose file changed during the run
    next_move,      \* calculate_next_move's result, "None" for None
    current_pos,    \* get_path_to_exit: (current_x, current_y)
    exec_code,      \* execute_pathfinding_code: what the code argument does
    exec_result,    \* execute_pathfinding_code's result dictionary
    mem_alt_size,   \* pyboy.memory[0xD4B3], [0xD4B4]: alternate map width and height
    view_size,      \* create_map_table's map_width and map_height
    tracker,        \* the RewardTracker object
    rewards_earned, \* RewardTracker.update's return value
    updates         \* history: the positions of the update calls so far

vars == <<entry, pc, player, target, map_width, map_height, npcs, collision_map,
          obstacles, open_set, came_from, g_score, path, ret, plan_result,
          pushed, popped, calls, first_path,
          radius, mem_adj, mem_block, mem_attr, fail_kind, fail_pos, scan,
          walkable, collision_grid, ran,
          mem_key, mem_warps, mem_objects, warps, npc_list, summary, instructions,
          first_ret, first_result,
          loop_pc, frame_count, ai_thinking, ai_queue, workers, obs_torn, started,
          consumed, last_response,
          prompt_cache, prompt_files, file_reads, prompt_result, file_edited,
          next_move, current_pos, exec_code, exec_result, mem_alt_size, view_size,
          tracker, rewards_earned, updates>>

gridVars == <<radius, mem_adj, mem_block, mem_attr, fail_kind, fail_pos, scan,
              walkable, collision_grid, ran>>

memVars == <<radius, mem_adj, mem_block, mem_attr, fail_kind, fail_pos>>

searchVars == <<obstacles, open_set, came_from, g_score, path, ret, plan_result,
                pushed, popped, calls, first_path>>

obsVars == <<mem_key, mem_warps, mem_objects, warps, npc_list>>

fmtVars == <<summary, instructions>>

histVars == <<first_ret, first_result>>

loopVars == <<loop_pc, frame_count, ai_thinking, ai_queue, workers, obs_torn, started,
              consumed, last_response>>

promptVars == <<prompt_cache, prompt_files, file_reads, prompt_result, file_edited>>

execVars == <<exec_code, exec_result>>

viewVars == <<mem_alt_size, view_size>>

rewardVars == <<tracker, rewards_earned, updates>>

navVars == <<next_move, current_pos>>

auxVars == <<loopVars, promptVars, navVars, execVars, viewVars, rewardVars>>

extVars == <<obsVars, fmtVars, histVars, auxVars>>

inputs == <<entry, player, target, map_width, map_height, npcs, collision_map>>

\* ------------------------------------------------------------------ helpers
Dirs == {"up", "down", "left", "right"}

Abs(n) == IF n < 0 THEN -n ELSE n

NoFn == [p \in {} |-> 0]

NoResult == [success |-> FALSE, distance |-> -1]

Cells(w, h) == (0 .. w - 1) \X (0 .. h - 1)

\* mutant: a heuristic that overestimates, twice the Manhattan distance
manhattan_distance_doubled(x1, y1, x2, y2) == 2 * (Abs(x1 - x2) + Abs(y1 - y2))

\* pathfinding_executor.py:10-12
manhattan_distance(x1, y1, x2, y2) == Abs(x1 - x2) + Abs(y1 - y2)

IndexOf(seq, e) == CHOOSE i \in 1 .. Len(seq) : seq[i] = e

\* mutant: among the entries of least f the one pushed first is popped
HeapMinFifo(S) ==
    CHOOSE e \in S : \A o \in S :
        \/ o = e
        \/ e[1] < o[1]
        \/ e[1] = o[1] /\ IndexOf(pushed, e) < IndexOf(pushed, o)

\* mutant: the comparison of f is inverted, the entry of greatest f comes first
TupleLessInvertedF(a, b) ==
    \/ a[1] > b[1]
    \/ a[1] = b[1] /\ a[2] < b[2]
    \/ a[1] = b[1] /\ a[2] = b[2] /\ a[3] < b[3]
    \/ a[1] = b[1] /\ a[2] = b[2] /\ a[3] = b[3] /\ a[4] < b[4]

\* Python's tuple comparison on (f_score, g_score, x, y)
TupleLess(a, b) ==
    \/ a[1] < b[1]
    \/ a[1] = b[1] /\ a[2] < b[2]
    \/ a[1] = b[1] /\ a[2] = b[2] /\ a[3] < b[3]
    \/ a[1] = b[1] /\ a[2] = b[2] /\ a[3] = b[3] /\ a[4] < b[4]

\* heapq.heappop returns the smallest entry of the heap
HeapMin(S) == CHOOSE e \in S : \A o \in S : o = e \/ TupleLess(e, o)

\* mutant: the labels of the vertical moves are exchanged
NeighborsSwapped(x, y) ==
    << <<x, y - 1, "down">>, <<x, y + 1, "up">>,
       <<x - 1, y, "left">>, <<x + 1, y, "right">> >>

\* pathfinding_executor.py:56-61
Neighbors(x, y) ==
    << <<x, y - 1, "up">>, <<x, y + 1, "down">>,
       <<x - 1, y, "left">>, <<x + 1, y, "right">> >>

\* mutant: the upper bounds are compared with > instead of >=
OutOfBoundsOffByOne(x, y, w, h) == x < 0 \/ y < 0 \/ x > w \/ y > h

\* mutant: the lower bounds are compared with <= instead of <
OutOfBoundsZero(x, y, w, h) == x <= 0 \/ y <= 0 \/ x >= w \/ y >= h

\* pathfinding_executor.py:65
OutOfBounds(x, y, w, h) == x < 0 \/ y < 0 \/ x >= w \/ y >= h

\* mutant: the obstacle test of lines 68-70 is missing
RECURSIVE ExpandFromNoObstacleTest(_, _, _, _, _)
ExpandFromNoObstacleTest(i, st, x, y, current_g) ==
    IF i > 4 THEN st
    ELSE
        LET nb == Neighbors(x, y)[i]
            nx == nb[1]
            ny == nb[2]
            direction == nb[3]
            tentative_g == current_g + 1
            neighbor_pos == <<nx, ny>>
        IN  IF OutOfBounds(nx, ny, map_width, map_height)
            THEN ExpandFromNoObstacleTest(i + 1, st, x, y, current_g)
            ELSE IF neighbor_pos \notin DOMAIN st.g \/ tentative_g < st.g[neighbor_pos]
            THEN LET f_score == tentative_g
                                + manhattan_distance(nx, ny, target[1], target[2])
                     item == <<f_score, tentative_g, nx, ny>>
                 IN  ExpandFromNoObstacleTest(i + 1,
                        [open   |-> st.open \cup {item},
                         came   |-> (neighbor_pos :> <<(<<x, y>>), direction>>) @@ st.came,
                         g      |-> (neighbor_pos :> tentative_g) @@ st.g,
                         pushed |-> Append(st.pushed, item)],
                        x, y, current_g)
            ELSE ExpandFromNoObstacleTest(i + 1, st, x, y, current_g)

\* pathfinding_executor.py:63-80, the body of the for loop for neighbor i and
\* the ones after it; st = [open, came, g, pushed]
RECURSIVE ExpandFrom(_, _, _, _, _)
ExpandFrom(i, st, x, y, current_g) ==
    IF i > 4 THEN st
    ELSE
        LET nb == Neighbors(x, y)[i]
            nx == nb[1]
            ny == nb[2]
            direction == nb[3]
            tentative_g == current_g + 1
            neighbor_pos == <<nx, ny>>
        IN  IF OutOfBounds(nx, ny, map_width, map_height)
            THEN ExpandFrom(i + 1, st, x, y, current_g)
            ELSE IF neighbor_pos \in obstacles
            THEN ExpandFrom(i + 1, st, x, y, current_g)
            ELSE IF neighbor_pos \notin DOMAIN st.g \/ tentative_g < st.g[neighbor_pos]
            THEN LET f_score == tentative_g
                                + manhattan_distance(nx, ny, target[1], target[2])
                     item == <<f_score, tentative_g, nx, ny>>
                 IN  ExpandFrom(i + 1,
                        [open   |-> st.open \cup {item},
                         came   |-> (neighbor_pos :> <<(<<x, y>>), direction>>) @@ st.came,
                         g      |-> (neighbor_pos :> tentative_g) @@ st.g,
                         pushed |-> Append(st.pushed, item)],
                        x, y, current_g)
            ELSE ExpandFrom(i + 1, st, x, y, current_g)

\* pathfinding_executor.py:92-100, the while loop; yields the path in the
\* order it is appended (goal first)
RECURSIVE WalkBack(_, _, _)
WalkBack(came, current, start) ==
    IF current \notin DOMAIN came THEN <<>>
    ELSE LET prev_pos == came[current][1]
             direction == came[current][2]
         IN  IF prev_pos = start THEN <<direction>>
             ELSE <<direction>> \o WalkBack(came, prev_pos, start)

Reverse(s) == [i \in 1 .. Len(s) |-> s[Len(s) + 1 - i]]

\* pathfinding_executor.py:86-103
reconstruct_path(came, current, start) == Reverse(WalkBack(came, current, start))

\* mutant: only the boolean True counts as blocked
TruthyOnlyTrue(v) == v = "True"

\* truthiness of a collision_map value (pathfinding_executor.py:130)
Truthy(v) == v # "False"

\* mutant: the NPC loop is missing
BuildObstaclesNoNpcs(npc_set, cmap) == {p \in DOMAIN cmap : Truthy(cmap[p])}

\* pathfinding_executor.py:121-131
BuildObstacles(npc_set, cmap) == npc_set \cup {p \in DOMAIN cmap : Truthy(cmap[p])}

\* ------------------------------------------------------------------ inputs
Rank(p) == p[2] * (MaxW + 2) + p[1]

IndexIn(O, c) == Cardinality({d \in O : Rank(d) < Rank(c)})

KindOf(O, c, rot) == <<"npc", "True", "unknown">>[((IndexIn(O, c) + rot) % 3) + 1]

ObstacleSets(w, h) == {O \in SUBSET Cells(w, h) : Cardinality(O) <= MaxObst}

Starts(w, h) == Cells(w, h) \cup {<<-1, 0>>}

Goals(w, h) == Cells(w, h) \cup {<<-1, 0>>, <<0, -1>>, <<w, 0>>, <<0, h>>}

Locals0 ==
    /\ open_set = {}
    /\ came_from = NoFn
    /\ g_score = NoFn
    /\ path = <<>>
    /\ ret = "none"
    /\ plan_result = NoResult
    /\ pushed = <<>>
    /\ popped = <<>>
    /\ calls = 1
    /\ first_path = <<>>

\* reward_tracker.py:7-15
NewTracker ==
    [visited_tiles |-> {}, visited_maps |-> {}, total_steps |-> 0, last_position |-> <<>>,
     last_badges |-> 0, last_party_count |-> 0, last_pokedex_owned |-> 0, rewards |-> <<>>]

\* pathfinding_executor.py:185
NewExecResult == [success |-> FALSE, error |-> "None", path |-> <<>>]

LoopIdle ==
    /\ loop_pc = "off"
    /\ frame_count = 0
    /\ ai_thinking = FALSE
    /\ ai_queue = <<>>
    /\ workers = <<>>
    /\ obs_torn = FALSE
    /\ started = 0
    /\ consumed = 0
    /\ last_response = "none"

\* no call of the prompt manager yet: calls counts the calls, op, type and text
\* describe the last one, since holds what each type returned when it was first
\* loaded after the last reload
NoCall == [calls |-> 0, op |-> "none", type |-> "none", text |-> "none", since |-> NoFn]

PromptIdle ==
    /\ prompt_cache = NoFn
    /\ prompt_files = NoFn
    /\ file_reads = 0
    /\ prompt_result = NoCall
    /\ file_edited = {}

NavIdle ==
    /\ next_move = "unset"
    /\ current_pos = <<0, 0>>

ExecIdle ==
    /\ exec_code = [kind |-> "none", value |-> <<>>]
    /\ exec_result = NewExecResult

ViewIdle ==
    /\ mem_alt_size = <<0, 0>>
    /\ view_size = <<0, 0>>

RewardIdle ==
    /\ tracker = NewTracker
    /\ rewards_earned = <<>>
    /\ updates = <<>>

\* the control loop, the prompt manager, the navigation helper, the code
\* executor, the map view and the reward tracker are not running
AuxIdle ==
    /\ LoopIdle
    /\ PromptIdle
    /\ NavIdle
    /\ ExecIdle
    /\ ViewIdle
    /\ RewardIdle

\* the observation reader and the formatters are not running
ObsFmtIdle ==
    /\ mem_key = <<0, 0>>
    /\ mem_warps = <<>>
    /\ mem_objects = <<>>
    /\ warps = <<>>
    /\ npc_list = <<>>
    /\ summary = <<>>
    /\ instructions = <<>>
    /\ first_ret = "none"
    /\ first_result = NoResult

ExtIdle == ObsFmtIdle /\ AuxIdle

NoAdj == [down |-> 0, up |-> 0, left |-> 0, right |-> 0]

\* the grid builder and the classifiers are not running
GridIdle ==
    /\ radius = 0
    /\ mem_adj = NoAdj
    /\ mem_block = NoFn
    /\ mem_attr = NoFn
    /\ fail_kind = "none"
    /\ fail_pos = <<0, 0>>
    /\ scan = 0
    /\ walkable = <<>>
    /\ collision_grid = NoFn
    /\ ran = {}

\* a call of calculate_path_from_data on drawn pathfinding data: the tiles of
\* O are NPCs, blocked tiles and unknown tiles in turn, starting with kind rot
InitPlanWith(rots, starts) ==
    \E w \in 1 .. MaxW, h \in 1 .. MaxH :
      \E O \in ObstacleSets(w, h), rot \in rots, s \in Starts(w, h) \cap starts,
         g \in Goals(w, h) :
        /\ O = {} => rot = 0
        /\ entry = "plan"
        /\ pc = "plan"
        /\ player = s
        /\ target = g
        /\ map_width = w
        /\ map_height = h
        /\ npcs = {c \in O : KindOf(O, c, rot) = "npc"}
        /\ collision_map = [c \in Cells(w, h) |->
                               IF c \in O /\ KindOf(O, c, rot) # "npc"
                               THEN KindOf(O, c, rot) ELSE "False"]
        /\ obstacles = {}
        /\ Locals0
        /\ GridIdle
        /\ ExtIdle

AllStarts == (-1 .. MaxW) \X (-1 .. MaxH)

InitPlan == InitPlanWith(0 .. 2, AllStarts)

\* src/test_markdown_system.py:42
TestWall == {<<12, 9>>, <<12, 10>>, <<12, 11>>}

\* the direct calls of astar_pathfind in src/test_markdown_system.py:23-28, 43-48
InitTest ==
    /\ entry = "astar"
    /\ pc = "astar"
    /\ player = <<10, 10>>
    /\ target = <<15, 10>>
    /\ map_width = TestMapSize
    /\ map_height = TestMapSize
    /\ npcs = {}
    /\ collision_map = NoFn
    /\ obstacles \in {{}, TestWall}
    /\ Locals0
    /\ GridIdle
    /\ ExtIdle

Init == InitPlan \/ InitTest

\* ------------------------------------------------------------------ actions
\* calculate_path_from_data, lines 116-139: build the obstacle set, call A*
PlanCall ==
    /\ pc = "plan"
    /\ obstacles' = BuildObstacles(npcs, collision_map)
    /\ pc' = "astar"
    /\ UNCHANGED <<inputs, open_set, came_from, g_score, path, ret, plan_result,
                   pushed, popped, calls, first_path>>
    /\ UNCHANGED <<gridVars, extVars>>

\* mutant: g_score outlives the call (a dictionary shared between calls)
AstarEnterSharedScores ==
    /\ pc = "astar"
    /\ IF target \in obstacles
       THEN /\ path' = <<>>
            /\ ret' = "goal_obstacle"
            /\ pc' = "returned"
            /\ open_set' = {}
            /\ came_from' = NoFn
            /\ g_score' = g_score
            /\ pushed' = <<>>
       ELSE IF OutOfBounds(target[1], target[2], map_width, map_height)
       THEN /\ path' = <<>>
            /\ ret' = "goal_out_of_bounds"
            /\ pc' = "returned"
            /\ open_set' = {}
            /\ came_from' = NoFn
            /\ g_score' = g_score
            /\ pushed' = <<>>
       ELSE /\ open_set' = {<<0, 0, player[1], player[2]>>}
            /\ came_from' = NoFn
            /\ g_score' = (player :> 0) @@ g_score
            /\ pushed' = <<(<<0, 0, player[1], player[2]>>)>>
            /\ pc' = "loop"
            /\ UNCHANGED <<path, ret>>
    /\ popped' = <<>>
    /\ UNCHANGED <<inputs, obstacles, plan_result, calls, first_path>>
    /\ UNCHANGED <<gridVars, extVars>>

\* astar_pathfind, lines 36-46: goal checks, then the initial open set.
\* The locals belong to this call's frame: on the early returns they are
\* never bound (modelled as empty).
AstarEnter ==
    /\ pc = "astar"
    /\ IF target \in obstacles
       THEN /\ path' = <<>>
            /\ ret' = "goal_obstacle"
            /\ pc' = "returned"
            /\ open_set' = {}
            /\ came_from' = NoFn
            /\ g_score' = NoFn
            /\ pushed' = <<>>
       ELSE IF OutOfBounds(target[1], target[2], map_width, map_height)
       THEN /\ path' = <<>>
            /\ ret' = "goal_out_of_bounds"
            /\ pc' = "returned"
            /\ open_set' = {}
            /\ came_from' = NoFn
            /\ g_score' = NoFn
            /\ pushed' = <<>>
       ELSE /\ open_set' = {<<0, 0, player[1], player[2]>>}
            /\ came_from' = NoFn
            /\ g_score' = (player :> 0)
            /\ pushed' = <<(<<0, 0, player[1], player[2]>>)>>
            /\ pc' = "loop"
            /\ UNCHANGED <<path, ret>>
    /\ popped' = <<>>
    /\ UNCHANGED <<inputs, obstacles, plan_result, calls, first_path>>
    /\ UNCHANGED <<gridVars, extVars>>

\* astar_pathfind, lines 48-80: one iteration of the while loop
AstarStep ==
    /\ pc = "loop"
    /\ open_set # {}
    /\ LET cur == HeapMin(open_set)
           current_g == cur[2]
           x == cur[3]
           y == cur[4]
       IN  /\ popped' = Append(popped, cur)
           /\ IF x = target[1] /\ y = target[2]
              THEN /\ path' = reconstruct_path(came_from, <<x, y>>, player)
                   /\ ret' = "found"
                   /\ pc' = "returned"
                   /\ open_set' = open_set \ {cur}
                   /\ UNCHANGED <<came_from, g_score, pushed>>
              ELSE LET st == ExpandFrom(1,
                                 [open |-> open_set \ {cur}, came |-> came_from,
                                  g |-> g_score, pushed |-> pushed],
                                 x, y, current_g)
                   IN  /\ open_set' = st.open
                       /\ came_from' = st.came
                       /\ g_score' = st.g
                       /\ pushed' = st.pushed
                       /\ UNCHANGED <<path, ret, pc>>
    /\ UNCHANGED <<inputs, obstacles, plan_result, calls, first_path>>
    /\ UNCHANGED <<gridVars, extVars>>

\* astar_pathfind, lines 48 and 82-83: the open set is empty, no path
AstarExhausted ==
    /\ pc = "loop"
    /\ open_set = {}
    /\ path' = <<>>
    /\ ret' = "exhausted"
    /\ pc' = "returned"
    /\ UNCHANGED <<inputs, obstacles, open_set, came_from, g_score, plan_result,
                   pushed, popped, calls, first_path>>
    /\ UNCHANGED <<gridVars, extVars>>

\* calculate_path_from_data, lines 141-150
PlanReturn ==
    /\ pc = "returned"
    /\ entry \in {"plan", "pipe"}
    /\ plan_result' = [path |-> path,
                       distance |-> Len(path),
                       success |-> Len(path) > 0,
                       start |-> player,
                       goal |-> target,
                       obstacles_count |-> Cardinality(obstacles)]
    /\ pc' = "done"
    /\ UNCHANGED <<inputs, obstacles, open_set, came_from, g_score, path, ret,
                   pushed, popped, calls, first_path>>
    /\ UNCHANGED <<gridVars, extVars>>

Finished == \/ entry \in {"plan", "pipe"} /\ pc = "done"
            \/ entry = "astar" /\ pc = "returned"

\* the caller invokes the same function again with the same arguments
\* (main_markdown.py:155-158 plans on every request); the finished call's
\* frame is dead and the new call binds its own locals
CallAgain ==
    /\ Finished
    /\ calls = 1
    /\ calls' = 2
    /\ first_path' = path
    /\ pc' = entry
    /\ path' = <<>>
    /\ ret' = "none"
    /\ plan_result' = NoResult
    /\ pushed' = <<>>
    /\ popped' = <<>>
    /\ UNCHANGED <<inputs, obstacles, open_set, came_from, g_score>>
    /\ UNCHANGED <<gridVars, extVars>>

Next ==
    \/ PlanCall
    \/ AstarEnter
    \/ AstarStep
    \/ AstarExhausted
    \/ PlanReturn
    \/ CallAgain

Spec == Init /\ [][Next]_vars

\* One call, run to completion: the interpreter keeps executing the call it
\* has entered, so every step of the call is taken when it is enabled.  What
\* kind of obstacle a tile is plays no part in the search: each obstacle set
\* is drawn in one representation, with the start in a corner of the map
\* or left of it.
InitLive == InitPlanWith({0}, {<<0, 0>>, <<-1, 0>>, <<MaxW - 1, MaxH - 1>>}) \/ InitTest

NextCall == PlanCall \/ AstarEnter \/ AstarStep \/ AstarExhausted \/ PlanReturn

LiveSpec == InitLive /\ [][NextCall]_vars /\ WF_vars(NextCall)


\* ------------------------------------------------------------------ replanning
\* plans from the first tile of the map
InitReplan == InitPlanWith({0}, {<<0, 0>>})

\* the caller plans again for the same target after the NPCs have moved
\* (main_markdown.py:155-158 reads the memory anew on every request)
PlanAgain ==
    /\ entry = "plan"
    /\ pc = "done"
    /\ calls = 1
    /\ \E N \in ObstacleSets(map_width, map_height) : npcs' = N
    /\ calls' = 2
    /\ first_path' = path
    /\ first_ret' = ret
    /\ first_result' = plan_result
    /\ pc' = "plan"
    /\ path' = <<>>
    /\ ret' = "none"
    /\ plan_result' = NoResult
    /\ pushed' = <<>>
    /\ popped' = <<>>
    /\ UNCHANGED <<entry, player, target, map_width, map_height, collision_map,
                   obstacles, open_set, came_from, g_score, gridVars, obsVars, fmtVars,
                   auxVars>>

NextReplan == NextCall \/ PlanAgain

ReplanSpec == InitReplan /\ [][NextReplan]_vars

\* ------------------------------------------------------------------ grid builder

\* Python's bool, as stored in the collision map
PyBool(b) == IF b THEN "True" ELSE "False"

\* the neighbor of position c in direction d
AdjPos(c, d) ==
    CASE d = "up"    -> <<c[1], c[2] - 1>>
      [] d = "down"  -> <<c[1], c[2] + 1>>
      [] d = "left"  -> <<c[1] - 1, c[2]>>
      [] d = "right" -> <<c[1] + 1, c[2]>>

\* markdown_vision.py:318-321: the window, and its k-th tile in loop order
\* (dy outer, dx inner, both from -radius to radius)
Window(c, r) == {<<c[1] + dx, c[2] + dy>> : dx \in -r .. r, dy \in -r .. r}

\* mutant: the outer loop stops one row early
WindowSizeShort(r) == (2 * r + 1) * (2 * r)

WindowSize(r) == (2 * r + 1) * (2 * r + 1)

ScanPos(c, r, k) ==
    <<c[1] + (k % (2 * r + 1)) - r, c[2] + (k \div (2 * r + 1)) - r>>

\* markdown_vision.py:304-309
SeedAdjacent(c, adj) ==
    (AdjPos(c, "up") :> PyBool(adj.up # 0)) @@
    (AdjPos(c, "down") :> PyBool(adj.down # 0)) @@
    (AdjPos(c, "left") :> PyBool(adj.left # 0)) @@
    (AdjPos(c, "right") :> PyBool(adj.right # 0))

\* mutant: the test "already have data" of lines 323-325 is missing
ScanCellNoSkip(cmap, x, y) ==
    IF x < 0 \/ y < 0 \/ x >= map_width \/ y >= map_height
    THEN [map |-> (<<x, y>> :> "True") @@ cmap, raised |-> FALSE]
    ELSE LET block_index == y * map_width + x
         IN  IF block_index < BlockIndexLimit
             THEN IF fail_kind = "block" /\ fail_pos = <<x, y>>
                  THEN [map |-> cmap, raised |-> TRUE]
                  ELSE IF fail_kind = "attr" /\ fail_pos = <<x, y>>
                  THEN [map |-> (<<x, y>> :> "unknown") @@ cmap, raised |-> FALSE]
                  ELSE LET block_id == mem_block[block_index]
                           collision_attr == mem_attr[block_id]
                           is_blocked == collision_attr # 0
                       IN  [map |-> (<<x, y>> :> PyBool(is_blocked)) @@ cmap,
                            raised |-> FALSE]
             ELSE [map |-> (<<x, y>> :> "unknown") @@ cmap, raised |-> FALSE]

\* markdown_vision.py:320-357, the body of the inner loop for tile (x, y):
\* the collision map after it, and whether the read of line 337 raised
ScanCell(cmap, x, y) ==
    IF <<x, y>> \in DOMAIN cmap
    THEN [map |-> cmap, raised |-> FALSE]
    ELSE IF x < 0 \/ y < 0 \/ x >= map_width \/ y >= map_height
    THEN [map |-> (<<x, y>> :> "True") @@ cmap, raised |-> FALSE]
    ELSE LET block_index == y * map_width + x
         IN  IF block_index < BlockIndexLimit
             THEN IF fail_kind = "block" /\ fail_pos = <<x, y>>
                  THEN [map |-> cmap, raised |-> TRUE]
                  ELSE IF fail_kind = "attr" /\ fail_pos = <<x, y>>
                  THEN [map |-> (<<x, y>> :> "unknown") @@ cmap, raised |-> FALSE]
                  ELSE LET block_id == mem_block[block_index]
                           collision_attr == mem_attr[block_id]
                           is_blocked == collision_attr # 0
                       IN  [map |-> (<<x, y>> :> PyBool(is_blocked)) @@ cmap,
                            raised |-> FALSE]
             ELSE [map |-> (<<x, y>> :> "unknown") @@ cmap, raised |-> FALSE]

\* the maps and reference positions drawn: every tile of every small map, and
\* a tile of a wide map whose block index passes the limit of line 335
GridPlaces ==
    {<<w, h, c>> : w \in 1 .. MaxW, h \in 1 .. MaxH, c \in (0 .. MaxW - 1) \X (0 .. MaxH - 1)}
        \cup {<<64, 32, <<5, 16>>>>}

AdjBytes ==
    {[down |-> d, up |-> u, left |-> l, right |-> r] :
        d \in {0, 255}, u \in {0, 1}, l \in {0, 7}, r \in {0, 128}}

\* block indices of the in-bounds tiles around c
BlockIndices(w, h, c, r) ==
    {q[2] * w + q[1] : q \in {t \in Window(c, r + 1) :
                                 t[1] >= 0 /\ t[2] >= 0 /\ t[1] < w /\ t[2] < h}}

SearchIdle ==
    /\ target = <<0, 0>>
    /\ npcs = {}
    /\ obstacles = {}
    /\ Locals0

\* a call of get_collision_map(pyboy, player_x, player_y, radius, w, h)
InitGrid ==
    \E pl \in GridPlaces, r \in 0 .. MaxRadius, adj \in AdjBytes,
       attr \in [{0, 1} -> {0, 7}], fk \in {"none", "block", "attr"},
       fd \in {<<0, 0>>, <<1, 1>>, <<-1, -1>>} :
        /\ pl[3] \in Cells(pl[1], pl[2])
        /\ fk = "none" => fd = <<0, 0>>
        /\ entry = "grid"
        /\ pc = "grid"
        /\ map_width = pl[1]
        /\ map_height = pl[2]
        /\ player = pl[3]
        /\ radius = r
        /\ mem_adj = adj
        /\ mem_block = [i \in BlockIndices(pl[1], pl[2], pl[3], r) |-> i % 2]
        /\ mem_attr = attr
        /\ fail_kind = fk
        /\ fail_pos = <<pl[3][1] + fd[1], pl[3][2] + fd[2]>>
        /\ collision_map = NoFn
        /\ scan = 0
        /\ walkable = <<>>
        /\ collision_grid = NoFn
        /\ ran = {}
        /\ SearchIdle
        /\ ExtIdle

\* get_collision_map, lines 291-309: read the adjacency bytes, seed the four
\* adjacent tiles
GridEnter ==
    /\ pc = "grid"
    /\ collision_map' = SeedAdjacent(player, mem_adj)
    /\ scan' = 0
    /\ pc' = "grid_scan"
    /\ UNCHANGED <<entry, player, target, map_width, map_height, npcs, searchVars, extVars,
                   memVars, walkable, collision_grid, ran>>

\* get_collision_map, lines 318-357: one tile of the window
GridScanStep ==
    /\ pc = "grid_scan"
    /\ scan < WindowSize(radius)
    /\ LET p == ScanPos(player, radius, scan)
           res == ScanCell(collision_map, p[1], p[2])
       IN  IF res.raised
           THEN /\ pc' = "grid_except"
                /\ UNCHANGED <<collision_map, scan>>
           ELSE /\ collision_map' = res.map
                /\ scan' = scan + 1
                /\ pc' = pc
    /\ UNCHANGED <<entry, player, target, map_width, map_height, npcs, searchVars, extVars,
                   memVars, walkable, collision_grid, ran>>

\* mutant: the handler guesses that the tiles not yet visited are walkable
GridExceptGuessWalkable ==
    /\ pc = "grid_except"
    /\ collision_map' = [p \in DOMAIN collision_map \cup Window(player, radius) |->
                            IF p \in DOMAIN collision_map THEN collision_map[p]
                            ELSE "False"]
    /\ pc' = "grid_done"
    /\ UNCHANGED <<entry, player, target, map_width, map_height, npcs, searchVars, extVars,
                   memVars, scan, walkable, collision_grid, ran>>

\* get_collision_map, lines 359-367: the handler of the outer try
GridExcept ==
    /\ pc = "grid_except"
    /\ collision_map' = [p \in DOMAIN collision_map \cup Window(player, radius) |->
                            IF p \in DOMAIN collision_map THEN collision_map[p]
                            ELSE "unknown"]
    /\ pc' = "grid_done"
    /\ UNCHANGED <<entry, player, target, map_width, map_height, npcs, searchVars, extVars,
                   memVars, scan, walkable, collision_grid, ran>>

\* get_collision_map, line 369: the loops are over
GridReturn ==
    /\ pc = "grid_scan"
    /\ scan = WindowSize(radius)
    /\ pc' = "grid_done"
    /\ UNCHANGED <<inputs, searchVars, extVars, memVars, scan, walkable, collision_grid, ran>>

NextGrid == GridEnter \/ GridScanStep \/ GridExcept \/ GridReturn

GridSpec == InitGrid /\ [][NextGrid]_vars

\* ------------------------------------------------------------------ adjacency classifiers
Byte == 0 .. 255

\* the order of the keys of the collision dictionaries (collision.py:18-23)
DirOrder == <<"down", "up", "left", "right">>

\* mutant: water (0x01, collision.py:34) counts as walkable
is_direction_walkable_or_water(collision_value) == collision_value <= 1

\* collision.py:26-36
is_direction_walkable(collision_value) == collision_value = 0

\* collision.py:38-47
get_walkable_directions(adj) ==
    SelectSeq(DirOrder, LAMBDA d : is_direction_walkable(adj[d]))

\* smart_pathfinding.py:23-44
get_full_collision_map(c, adj) ==
    (AdjPos(c, "up") :> (IF adj.up = 0 THEN "walkable" ELSE "blocked")) @@
    (AdjPos(c, "down") :> (IF adj.down = 0 THEN "walkable" ELSE "blocked")) @@
    (AdjPos(c, "left") :> (IF adj.left = 0 THEN "walkable" ELSE "blocked")) @@
    (AdjPos(c, "right") :> (IF adj.right = 0 THEN "walkable" ELSE "blocked"))

\* one raw adjacency byte takes every value, the three others are clear
InitClassify ==
    \E d \in Dirs, v \in Byte :
        /\ entry = "classify"
        /\ pc = "grid"
        /\ map_width = MaxW
        /\ map_height = MaxH
        /\ player = <<1, 1>>
        /\ radius = 0
        /\ mem_adj = [NoAdj EXCEPT ![d] = v]
        /\ mem_block = NoFn
        /\ mem_attr = NoFn
        /\ fail_kind = "none"
        /\ fail_pos = <<1, 1>>
        /\ collision_map = NoFn
        /\ scan = 0
        /\ walkable = <<>>
        /\ collision_grid = NoFn
        /\ ran = {}
        /\ SearchIdle
        /\ ExtIdle

\* collision.py get_walkable_directions(pyboy)
WalkableCall ==
    /\ entry = "classify"
    /\ "collision" \notin ran
    /\ walkable' = get_walkable_directions(mem_adj)
    /\ ran' = ran \cup {"collision"}
    /\ UNCHANGED <<inputs, pc, searchVars, extVars, memVars, scan, collision_grid>>

\* smart_pathfinding.py get_full_collision_map(pyboy, player_x, player_y)
SmartMapCall ==
    /\ entry = "classify"
    /\ "smart" \notin ran
    /\ collision_grid' = get_full_collision_map(player, mem_adj)
    /\ ran' = ran \cup {"smart"}
    /\ UNCHANGED <<inputs, pc, searchVars, extVars, memVars, scan, walkable>>

NextClassify == WalkableCall \/ SmartMapCall \/ GridEnter

ClassifySpec == InitClassify /\ [][NextClassify]_vars

\* ------------------------------------------------------------------ observation
\* markdown_vision.py:193, a warp count above this is taken for garbage
WarpCountLimit == 16

\* markdown_vision.py:201, the "sanity check" on a warp coordinate
CoordLimit == 255

\* markdown_vision.py:270, the number of object slots read
ObjectSlots == 16

Min(a, b) == IF a < b THEN a ELSE b

\* markdown_vision.py:161-168
ManualWarps ==
    (<<1, 1>> :> <<<<7, 0>>>>) @@
    (<<1, 2>> :> <<<<9, 0>>, <<6, 7>>>>) @@
    (<<3, 1>> :> <<<<4, 7>>>>) @@
    (<<2, 1>> :> <<<<3, 11>>>>) @@
    (<<24, 7>> :> <<<<7, 0>>>>) @@
    (<<24, 6>> :> <<<<6, 7>>>>)

\* markdown_vision.py:218-224
FallbackWarps ==
    (<<1, 1>> :> <<<<7, 0>>>>) @@
    (<<1, 2>> :> <<<<9, 0>>>>) @@
    (<<3, 1>> :> <<<<4, 7>>>>) @@
    (<<2, 1>> :> <<<<3, 11>>>>) @@
    (<<24, 7>> :> <<<<7, 0>>>>)

\* markdown_vision.py:193-203: the warps of one RAM table; a row is <<y, x>>
RamWarps(t) ==
    IF t.count > 0 /\ t.count <= WarpCountLimit
    THEN LET rows == SelectSeq(SubSeq(t.data, 1, t.count),
                               LAMBDA row : row[2] < CoordLimit /\ row[1] < CoordLimit)
         IN  [i \in 1 .. Len(rows) |-> <<rows[i][2], rows[i][1]>>]
    ELSE <<>>

\* markdown_vision.py:189-207: the first table that yields a warp
RECURSIVE FirstRamWarps(_, _)
FirstRamWarps(tables, i) ==
    IF i > Len(tables) THEN <<>>
    ELSE IF RamWarps(tables[i]) # <<>> THEN RamWarps(tables[i])
    ELSE FirstRamWarps(tables, i + 1)

\* markdown_vision.py:209-259: no table yielded a warp
LastResortWarps(key, p) ==
    IF key \in DOMAIN FallbackWarps THEN FallbackWarps[key]
    ELSE IF key = <<24, 7>> \/ key = <<1, 1>> THEN <<<<7, 0>>>>
    ELSE IF 1 <= p[1] /\ p[1] <= 7 /\ 1 <= p[2] /\ p[2] <= 7 THEN <<<<7, 0>>>>
    ELSE <<>>

\* markdown_vision.py:152-262
get_warp_positions(key, tables, p) ==
    IF key \in DOMAIN ManualWarps THEN ManualWarps[key]
    ELSE IF FirstRamWarps(tables, 1) # <<>> THEN FirstRamWarps(tables, 1)
    ELSE LastResortWarps(key, p)

\* markdown_vision.py:265-281
get_npc_positions(objs) ==
    LET slots == SubSeq(objs, 1, Min(Len(objs), ObjectSlots))
        live == SelectSeq(slots, LAMBDA o : o.sprite_id # 0)
    IN  [i \in 1 .. Len(live) |-> <<live[i].x, live[i].y>>]

\* reference positions read from 0xDCB8/0xDCB7 on a w x h map: corners, an
\* inner tile, and the column just past the right edge
PipeStarts(w, h) ==
    {<<0, 0>>, <<w - 1, h - 1>>, <<w, 0>>} \cup ({<<1, 1>>} \cap Cells(w, h))

NoTable == [count |-> 0, data |-> <<>>]

\* contents of the three warp tables, with the row of the tile g among them
WarpTables(w, g) ==
    {<<NoTable, NoTable, NoTable>>,
     <<[count |-> 1, data |-> <<<<g[2], g[1]>>>>], NoTable, NoTable>>,
     <<[count |-> 17, data |-> <<>>],
       [count |-> 2, data |-> <<<<g[2], g[1]>>, <<g[2], g[1]>>>>], NoTable>>,
     <<[count |-> 2, data |-> <<<<255, 0>>, <<0, w>>>>], NoTable, NoTable>>,
     <<[count |-> 1, data |-> <<<<255, 255>>>>], NoTable,
       [count |-> 1, data |-> <<<<g[2], g[1]>>>>]>>}

\* contents of the object slots: none, an NPC on g, two NPCs on one tile
\* around an empty slot, an NPC past the right edge
ObjectSlotsOf(w, g) ==
    {<<>>,
     <<[sprite_id |-> 1, y |-> g[2], x |-> g[1]]>>,
     <<[sprite_id |-> 1, y |-> 0, x |-> 0], [sprite_id |-> 0, y |-> g[2], x |-> g[1]],
       [sprite_id |-> 2, y |-> 0, x |-> 0]>>,
     <<[sprite_id |-> 1, y |-> 0, x |-> w]>>}

\* adjacency bytes and tileset attributes
Terrains ==
    {<<NoAdj, [b \in {0, 1} |-> 0]>>,
     <<NoAdj, [b \in {0, 1} |-> 7 * b]>>,
     <<[down |-> 255, up |-> 1, left |-> 7, right |-> 128], [b \in {0, 1} |-> 0]>>}

\* main_markdown.py:155-158: create_pathfinding_data(pyboy, target_x, target_y,
\* radius) on drawn emulator memory, then calculate_path_from_data
InitPipe ==
    \E w \in 1 .. MaxW, h \in 1 .. MaxH, r \in 0 .. MaxRadius :
      \E s \in PipeStarts(w, h), g \in Cells(w, h), tr \in Terrains,
         fk \in {"none", "block"}, key \in {<<0, 0>>, <<1, 2>>} :
        \E tabs \in WarpTables(w, g), objs \in ObjectSlotsOf(w, g) :
            /\ key = <<1, 2>> => tabs = <<NoTable, NoTable, NoTable>>
            /\ entry = "pipe"
            /\ pc = "cpd"
            /\ player = s
            /\ target = g
            /\ map_width = w
            /\ map_height = h
            /\ radius = r
            /\ mem_adj = tr[1]
            /\ mem_block = [i \in BlockIndices(w, h, s, r) |-> i % 2]
            /\ mem_attr = tr[2]
            /\ fail_kind = fk
            /\ fail_pos = s
            /\ mem_key = key
            /\ mem_warps = tabs
            /\ mem_objects = objs
            /\ warps = <<>>
            /\ npc_list = <<>>
            /\ npcs = {}
            /\ collision_map = NoFn
            /\ obstacles = {}
            /\ scan = 0
            /\ walkable = <<>>
            /\ collision_grid = NoFn
            /\ ran = {}
            /\ summary = <<>>
            /\ instructions = <<>>
            /\ first_ret = "none"
            /\ first_result = NoResult
            /\ AuxIdle
            /\ Locals0

\* create_pathfinding_data, lines 377-389: player, map size, warps and NPCs
\* are read from memory; line 400 calls get_collision_map
PipeRead ==
    /\ entry = "pipe"
    /\ pc = "cpd"
    /\ warps' = get_warp_positions(mem_key, mem_warps, player)
    /\ npc_list' = get_npc_positions(mem_objects)
    /\ pc' = "grid"
    /\ UNCHANGED <<inputs, searchVars, gridVars, mem_key, mem_warps, mem_objects, fmtVars,
                   histVars, auxVars>>

\* create_pathfinding_data, lines 402-424: the data are returned and handed
\* to calculate_path_from_data (main_markdown.py:158), whose loop of lines
\* 124-126 collects the NPC positions
PipeData ==
    /\ entry = "pipe"
    /\ pc = "grid_done"
    /\ npcs' = {npc_list[i] : i \in 1 .. Len(npc_list)}
    /\ pc' = "plan"
    /\ UNCHANGED <<entry, player, target, map_width, map_height, collision_map,
                   searchVars, gridVars, extVars>>

NextPipe ==
    \/ PipeRead
    \/ GridEnter
    \/ GridScanStep
    \/ GridExcept
    \/ GridReturn
    \/ PipeData
    \/ PlanCall
    \/ AstarEnter
    \/ AstarStep
    \/ AstarExhausted
    \/ PlanReturn

PipeSpec == InitPipe /\ [][NextPipe]_vars

\* ------------------------------------------------------------------ path summaries
\* A string is modelled as the list of its pieces: decimal digits, blanks,
\* direction words and the fixed texts of the source.
MaxPathLen == 4

Digits == <<"0", "1", "2", "3", "4", "5", "6", "7", "8", "9">>

\* str(count) of an f-string
RECURSIVE Decimal(_)
Decimal(n) ==
    IF n < 10 THEN <<Digits[n + 1]>>
    ELSE Decimal(n \div 10) \o <<Digits[(n % 10) + 1]>>

\* sep.join(parts)
RECURSIVE Join(_, _)
Join(parts, sep) ==
    IF Len(parts) = 0 THEN <<>>
    ELSE IF Len(parts) = 1 THEN parts[1]
    ELSE parts[1] \o <<sep>> \o Join(Tail(parts), sep)

\* mutant: a run is written without its count
RunTextNoCount(count, current_dir) == <<"1", " ", current_dir>>

\* pathfinding_executor.py:239, 245: f"{count} {current_dir}"
RunText(count, current_dir) == Decimal(count) \o <<" ", current_dir>>

\* pathfinding_executor.py:234-245: the loop over path from index i, and the
\* append after it; current_dir "None" stands for None
RECURSIVE SimplifyLoop(_, _, _, _, _)
SimplifyLoop(p, i, current_dir, count, simplified) ==
    IF i > Len(p)
    THEN IF current_dir # "None" THEN Append(simplified, RunText(count, current_dir))
         ELSE simplified
    ELSE IF p[i] = current_dir
    THEN SimplifyLoop(p, i + 1, current_dir, count + 1, simplified)
    ELSE SimplifyLoop(p, i + 1, p[i], 1,
                      IF current_dir # "None"
                      THEN Append(simplified, RunText(count, current_dir))
                      ELSE simplified)

\* pathfinding_executor.py:221-247
simplify_path(p) ==
    IF Len(p) = 0 THEN <<"No path">>
    ELSE Join(SimplifyLoop(p, 1, "None", 0, <<>>), ", then ")

\* str.upper() on a direction
Upper(d) ==
    CASE d = "up" -> "UP"
      [] d = "down" -> "DOWN"
      [] d = "left" -> "LEFT"
      [] d = "right" -> "RIGHT"

\* pathfinding.py:58, 64: f"{current_dir.upper()} {count} time{'s' if count > 1 else ''}"
InstructionText(count, current_dir) ==
    <<Upper(current_dir), " ">> \o Decimal(count) \o <<" ", "time">> \o
        (IF count > 1 THEN <<"s">> ELSE <<>>)

\* pathfinding.py:53-64: the loop over path from index i, and the append
\* after it; current_dir "None" stands for None
RECURSIVE FormatLoop(_, _, _, _, _)
FormatLoop(p, i, current_dir, count, instr) ==
    IF i > Len(p)
    THEN IF current_dir # "None" THEN Append(instr, InstructionText(count, current_dir))
         ELSE instr
    ELSE IF p[i] = current_dir
    THEN FormatLoop(p, i + 1, current_dir, count + 1, instr)
    ELSE FormatLoop(p, i + 1, p[i], 1,
                    IF current_dir # "None"
                    THEN Append(instr, InstructionText(count, current_dir))
                    ELSE instr)

\* pathfinding.py:40-66
format_path_instructions(p) ==
    IF Len(p) = 0 THEN <<"You are at the exit!">>
    ELSE <<"Go ">> \o Join(FormatLoop(p, 1, "None", 0, <<>>), ", then ")

PathsUpTo(n) == UNION {[1 .. k -> Dirs] : k \in 0 .. n}

\* every short path, and a run long enough for a count of two digits followed
\* by a turn
FmtPaths ==
    PathsUpTo(MaxPathLen) \cup {[i \in 1 .. 13 |-> IF i <= 12 THEN "right" ELSE "up"]}

\* simplify_path(path) and format_path_instructions(path) on a drawn path
InitFormat ==
    \E p \in FmtPaths :
        /\ entry = "format"
        /\ pc = "format"
        /\ path = p
        /\ player = <<0, 0>>
        /\ target = <<0, 0>>
        /\ map_width = 1
        /\ map_height = 1
        /\ npcs = {}
        /\ collision_map = NoFn
        /\ obstacles = {}
        /\ open_set = {}
        /\ came_from = NoFn
        /\ g_score = NoFn
        /\ ret = "none"
        /\ plan_result = NoResult
        /\ pushed = <<>>
        /\ popped = <<>>
        /\ calls = 1
        /\ first_path = <<>>
        /\ GridIdle
        /\ ExtIdle

\* main_markdown.py:161: simplify_path(result['path'])
SimplifyCall ==
    /\ entry = "format"
    /\ summary = <<>>
    /\ summary' = simplify_path(path)
    /\ UNCHANGED <<inputs, pc, searchVars, gridVars, obsVars, instructions, histVars,
                   auxVars>>

\* pathfinding.py format_path_instructions(path)
FormatCall ==
    /\ entry = "format"
    /\ instructions = <<>>
    /\ instructions' = format_path_instructions(path)
    /\ UNCHANGED <<inputs, pc, searchVars, gridVars, obsVars, summary, histVars, auxVars>>

NextFormat == SimplifyCall \/ FormatCall

FmtSpec == InitFormat /\ [][NextFormat]_vars

\* ------------------------------------------------------------------ control loop
\* nothing of the planner, the grid builder, the observation reader or the
\* formatters is running
BaseIdle ==
    /\ pc = "off"
    /\ player = <<0, 0>>
    /\ map_width = 1
    /\ map_height = 1
    /\ collision_map = NoFn
    /\ SearchIdle
    /\ GridIdle
    /\ ObsFmtIdle

baseVars == <<entry, pc, player, target, map_width, map_height, npcs, collision_map,
              searchVars, gridVars, obsVars, fmtVars, histVars>>

\* main_markdown.py:355, a request is started every 60th frame
TriggerPeriod == 60

\* AI threads that can exist at once, and requests started in a run
MaxThreads == 2
MaxRequests == 2

\* the memory reads of one observation, made by get_action in the AI thread:
\* create_detailed_map_state (markdown_vision.py:481-507) reads the player
\* position, the adjacency bytes, the warps, the map size and the NPCs, then
\* get_action reads the basic game info (main_markdown.py:70-74)
ObservationReads == <<"player", "adjacency", "warps", "map_size", "npcs", "game_info">>

\* what get_action returns: None after an exception, or a message with a
\* well-formed tool call, a tool call whose arguments are not JSON, a
\* key_press call without 'keys', text only, or nothing
Responses ==
    {"None", "tool_ok", "tool_invalid_json", "tool_missing_keys", "content", "empty"}

\* execute_action raises: json.loads (main_markdown.py:237), args["keys"] (line 247)
Raises(response) == response \in {"tool_invalid_json", "tool_missing_keys"}

IdleWorker == [pc |-> "idle", reads |-> 0, torn |-> FALSE]

\* main(), lines 299-323
InitLoop ==
    /\ entry = "loop"
    /\ BaseIdle
    /\ loop_pc = "tick"
    /\ frame_count = 0
    /\ ai_thinking = FALSE
    /\ ai_queue = <<>>
    /\ workers = [t \in 1 .. MaxThreads |-> IdleWorker]
    /\ obs_torn = FALSE
    /\ started = 0
    /\ consumed = 0
    /\ last_response = "none"
    /\ PromptIdle
    /\ NavIdle
    /\ ExecIdle
    /\ ViewIdle
    /\ RewardIdle

notLoopVars == <<baseVars, promptVars, navVars, execVars, viewVars, rewardVars>>

\* main(), lines 326-328: pyboy.tick() in the loop condition, frame_count += 1;
\* the emulator memory changes under an AI thread that is between two reads
LoopTick ==
    /\ loop_pc = "tick"
    /\ frame_count' = (frame_count + 1) % TriggerPeriod
    /\ workers' = [t \in DOMAIN workers |->
                      IF workers[t].pc = "observe" /\ workers[t].reads >= 1
                      THEN [workers[t] EXCEPT !.torn = TRUE]
                      ELSE workers[t]]
    /\ loop_pc' = "check"
    /\ UNCHANGED <<ai_thinking, ai_queue, obs_torn, started, consumed, last_response,
                   notLoopVars>>

\* main(), lines 331-352: take a response if one is there and execute it; an
\* exception of execute_action leaves the loop (lines 381-385)
LoopCheck ==
    /\ loop_pc = "check"
    /\ IF ai_thinking /\ ai_queue # <<>>
       THEN /\ ai_queue' = Tail(ai_queue)
            /\ ai_thinking' = FALSE
            /\ consumed' = consumed + 1
            /\ last_response' = Head(ai_queue)
            /\ loop_pc' = IF Raises(Head(ai_queue)) THEN "stopped" ELSE "trigger"
       ELSE /\ loop_pc' = "trigger"
            /\ UNCHANGED <<ai_queue, ai_thinking, consumed, last_response>>
    /\ UNCHANGED <<frame_count, workers, obs_torn, started, notLoopVars>>

FreeThread == CHOOSE t \in DOMAIN workers :
                 workers[t].pc = "idle" /\ \A u \in DOMAIN workers : workers[u].pc = "idle" => t <= u

\* mutant: a request is started on every trigger frame
LoopTriggerUngated ==
    /\ loop_pc = "trigger"
    /\ IF /\ frame_count % TriggerPeriod = 0
          /\ started < MaxRequests
          /\ \E t \in DOMAIN workers : workers[t].pc = "idle"
       THEN /\ ai_thinking' = TRUE
            /\ workers' = [workers EXCEPT ![FreeThread] =
                              [pc |-> "observe", reads |-> 0, torn |-> FALSE]]
            /\ started' = started + 1
       ELSE UNCHANGED <<ai_thinking, workers, started>>
    /\ loop_pc' = "tick"
    /\ UNCHANGED <<frame_count, ai_queue, obs_torn, consumed, last_response, notLoopVars>>

\* main(), lines 355-376: start an AI thread when none is thinking
LoopTrigger ==
    /\ loop_pc = "trigger"
    /\ IF /\ ~ai_thinking
          /\ frame_count % TriggerPeriod = 0
          /\ started < MaxRequests
          /\ \E t \in DOMAIN workers : workers[t].pc = "idle"
       THEN /\ ai_thinking' = TRUE
            /\ workers' = [workers EXCEPT ![FreeThread] =
                              [pc |-> "observe", reads |-> 0, torn |-> FALSE]]
            /\ started' = started + 1
       ELSE UNCHANGED <<ai_thinking, workers, started>>
    /\ loop_pc' = "tick"
    /\ UNCHANGED <<frame_count, ai_queue, obs_torn, consumed, last_response, notLoopVars>>

\* get_action in the AI thread: one memory read of the observation
WorkerRead(t) ==
    /\ workers[t].pc = "observe"
    /\ IF workers[t].reads + 1 = Len(ObservationReads)
       THEN /\ workers' = [workers EXCEPT ![t].reads = @ + 1, ![t].pc = "request"]
            /\ obs_torn' = workers[t].torn
       ELSE /\ workers' = [workers EXCEPT ![t].reads = @ + 1]
            /\ UNCHANGED obs_torn
    /\ UNCHANGED <<loop_pc, frame_count, ai_thinking, ai_queue, started, consumed,
                   last_response, notLoopVars>>

\* get_action returns (main_markdown.py:133-139) and ai_thread_func puts the
\* response on the queue (lines 293-296)
WorkerRespond(t) ==
    /\ workers[t].pc = "request"
    /\ \E r \in Responses : ai_queue' = Append(ai_queue, r)
    /\ workers' = [workers EXCEPT ![t] = IdleWorker]
    /\ UNCHANGED <<loop_pc, frame_count, ai_thinking, obs_torn, started, consumed,
                   last_response, notLoopVars>>

NextLoop ==
    \/ LoopTick
    \/ LoopCheck
    \/ LoopTrigger
    \/ \E t \in 1 .. MaxThreads : WorkerRead(t)
    \/ \E t \in 1 .. MaxThreads : WorkerRespond(t)

LoopSpec == InitLoop /\ [][NextLoop]_vars

\* ------------------------------------------------------------------ prompt manager
\* prompt_manager.py:12-14, three of the five prompt types
PromptTypes == {"SYSTEM", "SELF_CRITIC", "SUMMARY"}

\* calls of the prompt manager in a run
MaxCalls == 4

\* PromptManager.__init__ (lines 21-29); a prompt file holds a text or is missing
InitPrompt ==
    /\ entry = "prompt"
    /\ BaseIdle
    /\ LoopIdle
    /\ prompt_cache = NoFn
    /\ prompt_files \in [PromptTypes -> {"v1", "missing"}]
    /\ file_reads = 0
    /\ prompt_result = NoCall
    /\ file_edited = {}
    /\ NavIdle
    /\ ExecIdle
    /\ ViewIdle
    /\ RewardIdle

notPromptVars == <<baseVars, loopVars, navVars, execVars, viewVars, rewardVars>>

\* the result of a call
Called(op, t, text, since) ==
    [calls |-> prompt_result.calls + 1, op |-> op, type |-> t, text |-> text, since |-> since]

\* mutant: the text read from the file is not cached
LoadPromptUncached(t) ==
    /\ prompt_result.calls < MaxCalls
    /\ IF t \in DOMAIN prompt_cache
       THEN /\ prompt_result' = Called("load", t, prompt_cache[t], prompt_result.since)
            /\ UNCHANGED <<prompt_cache, file_reads>>
       ELSE IF prompt_files[t] = "missing"
       THEN /\ prompt_result' = Called("load", t, "FileNotFoundError", prompt_result.since)
            /\ UNCHANGED <<prompt_cache, file_reads>>
       ELSE /\ file_reads' = file_reads + 1
            /\ UNCHANGED prompt_cache
            /\ prompt_result' = Called("load", t, prompt_files[t],
                                       IF t \in DOMAIN prompt_result.since
                                       THEN prompt_result.since
                                       ELSE (t :> prompt_files[t]) @@ prompt_result.since)
    /\ UNCHANGED <<prompt_files, file_edited, notPromptVars>>

\* PromptManager.load_prompt, lines 31-60
LoadPrompt(t) ==
    /\ prompt_result.calls < MaxCalls
    /\ IF t \in DOMAIN prompt_cache
       THEN /\ prompt_result' = Called("load", t, prompt_cache[t], prompt_result.since)
            /\ UNCHANGED <<prompt_cache, file_reads>>
       ELSE IF prompt_files[t] = "missing"
       THEN /\ prompt_result' = Called("load", t, "FileNotFoundError", prompt_result.since)
            /\ UNCHANGED <<prompt_cache, file_reads>>
       ELSE /\ file_reads' = file_reads + 1
            /\ prompt_cache' = (t :> prompt_files[t]) @@ prompt_cache
            /\ prompt_result' = Called("load", t, prompt_files[t],
                                       IF t \in DOMAIN prompt_result.since
                                       THEN prompt_result.since
                                       ELSE (t :> prompt_files[t]) @@ prompt_result.since)
    /\ UNCHANGED <<prompt_files, file_edited, notPromptVars>>

\* PromptManager.reload_prompts, lines 82-84
ReloadPrompts ==
    /\ prompt_result.calls < MaxCalls
    /\ prompt_cache' = NoFn
    /\ prompt_result' = Called("reload", "none", "none", NoFn)
    /\ UNCHANGED <<prompt_files, file_reads, file_edited, notPromptVars>>

\* somebody edits a prompt file while the program runs
EditFile(t) ==
    /\ prompt_files[t] = "v1"
    /\ prompt_files' = [prompt_files EXCEPT ![t] = "v2"]
    /\ file_edited' = file_edited \cup {t}
    /\ UNCHANGED <<prompt_cache, file_reads, prompt_result, notPromptVars>>

NextPrompt ==
    \/ \E t \in PromptTypes : LoadPrompt(t)
    \/ ReloadPrompts
    \/ \E t \in PromptTypes : EditFile(t)

PromptSpec == InitPrompt /\ [][NextPrompt]_vars

\* ------------------------------------------------------------------ greedy path to an exit
\* largest coordinate of the player and of the exit
MaxCoord == 2

ExitCoords == (0 .. MaxCoord) \X (0 .. MaxCoord)

\* pathfinding.py:6-8, manhattan_distance on two positions
manhattan_distance_pos(pos1, pos2) == Abs(pos1[1] - pos2[1]) + Abs(pos1[2] - pos2[2])

\* a call of get_path_to_exit(player_x, player_y, exit_x, exit_y),
\* lines 17-18; the map has blocked tiles the function is not told about
InitExit ==
    /\ entry = "exit"
    /\ pc = "horizontal"
    /\ player \in ExitCoords
    /\ target \in ExitCoords
    /\ map_width = 1
    /\ map_height = 1
    /\ collision_map = NoFn
    /\ npcs = {}
    /\ obstacles \in {{}, {<<1, 0>>}, {<<0, 1>>, <<1, 1>>}}
    /\ Locals0
    /\ GridIdle
    /\ ObsFmtIdle
    /\ LoopIdle
    /\ PromptIdle
    /\ next_move = "unset"
    /\ current_pos = player
    /\ ExecIdle
    /\ ViewIdle
    /\ RewardIdle

notExitVars == <<entry, player, target, map_width, map_height, npcs, collision_map,
                 obstacles, open_set, came_from, g_score, ret, plan_result,
                 pushed, popped, calls, first_path, gridVars, obsVars, fmtVars, histVars,
                 loopVars, promptVars, next_move, execVars, viewVars, rewardVars>>

\* mutant: the horizontal loop steps away from the exit
ExitHorizontalAway ==
    /\ entry = "exit"
    /\ pc = "horizontal"
    /\ IF current_pos[1] # target[1] /\ Len(path) < 2 * MaxCoord
       THEN IF current_pos[1] < target[1]
            THEN /\ path' = Append(path, "left")
                 /\ current_pos' = <<current_pos[1] - 1, current_pos[2]>>
                 /\ UNCHANGED pc
            ELSE /\ path' = Append(path, "right")
                 /\ current_pos' = <<current_pos[1] + 1, current_pos[2]>>
                 /\ UNCHANGED pc
       ELSE /\ pc' = "vertical"
            /\ UNCHANGED <<path, current_pos>>
    /\ UNCHANGED notExitVars

\* get_path_to_exit, lines 21-27: one test of the first while loop
ExitHorizontal ==
    /\ entry = "exit"
    /\ pc = "horizontal"
    /\ IF current_pos[1] # target[1]
       THEN IF current_pos[1] < target[1]
            THEN /\ path' = Append(path, "right")
                 /\ current_pos' = <<current_pos[1] + 1, current_pos[2]>>
                 /\ UNCHANGED pc
            ELSE /\ path' = Append(path, "left")
                 /\ current_pos' = <<current_pos[1] - 1, current_pos[2]>>
                 /\ UNCHANGED pc
       ELSE /\ pc' = "vertical"
            /\ UNCHANGED <<path, current_pos>>
    /\ UNCHANGED notExitVars

\* get_path_to_exit, lines 30-38: one test of the second while loop, then return
ExitVertical ==
    /\ entry = "exit"
    /\ pc = "vertical"
    /\ IF current_pos[2] # target[2]
       THEN IF current_pos[2] < target[2]
            THEN /\ path' = Append(path, "down")
                 /\ current_pos' = <<current_pos[1], current_pos[2] + 1>>
                 /\ UNCHANGED pc
            ELSE /\ path' = Append(path, "up")
                 /\ current_pos' = <<current_pos[1], current_pos[2] - 1>>
                 /\ UNCHANGED pc
       ELSE /\ pc' = "done"
            /\ UNCHANGED <<path, current_pos>>
    /\ UNCHANGED notExitVars

NextExit ==
    \/ ExitHorizontal
    \/ ExitVertical

ExitSpec == InitExit /\ [][NextExit]_vars

\* the function runs until it returns
ExitLiveSpec == ExitSpec /\ WF_vars(NextExit)

\* ------------------------------------------------------------------ next move
\* first element of seq whose adjacency byte is 0x00, "None" when there is none
RECURSIVE FirstWalkable(_, _)
FirstWalkable(seq, collision_data) ==
    IF seq = <<>> THEN "None"
    ELSE IF collision_data[Head(seq)] = 0 THEN Head(seq)
    ELSE FirstWalkable(Tail(seq), collision_data)

\* mutant: horizontal movement is tried first unless the vertical distance is larger
calculate_next_move_horizontal(player_x, player_y, target_x, target_y, collision_data) ==
    LET dx == target_x - player_x
        dy == target_y - player_y
        horizontal == IF dx > 0 THEN <<"right">> ELSE IF dx < 0 THEN <<"left">> ELSE <<>>
        vertical == IF dy > 0 THEN <<"down">> ELSE IF dy < 0 THEN <<"up">> ELSE <<>>
        moves == IF Abs(dx) >= Abs(dy) THEN horizontal \o vertical
                 ELSE vertical \o horizontal
        direct == FirstWalkable(moves, collision_data)
    IN  IF direct # "None" THEN direct
        ELSE FirstWalkable(<<"up", "down", "left", "right">>, collision_data)

\* smart_pathfinding.py:46-89
calculate_next_move(player_x, player_y, target_x, target_y, collision_data) ==
    LET dx == target_x - player_x
        dy == target_y - player_y
        horizontal == IF dx > 0 THEN <<"right">> ELSE IF dx < 0 THEN <<"left">> ELSE <<>>
        vertical == IF dy > 0 THEN <<"down">> ELSE IF dy < 0 THEN <<"up">> ELSE <<>>
        moves == IF Abs(dx) > Abs(dy) THEN horizontal \o vertical
                 ELSE vertical \o horizontal
        direct == FirstWalkable(moves, collision_data)
    IN  IF direct # "None" THEN direct
        ELSE FirstWalkable(<<"up", "down", "left", "right">>, collision_data)

\* a call of get_navigation_instructions(pyboy, target_x, target_y): the player
\* position and the adjacency bytes are in memory
InitNav ==
    /\ entry = "nav"
    /\ pc = "call"
    /\ player \in ExitCoords
    /\ target \in ExitCoords
    /\ map_width = 1
    /\ map_height = 1
    /\ collision_map = NoFn
    /\ npcs = {}
    /\ obstacles = {}
    /\ Locals0
    /\ radius = 0
    /\ mem_adj \in AdjBytes
    /\ mem_block = NoFn
    /\ mem_attr = NoFn
    /\ fail_kind = "none"
    /\ fail_pos = <<0, 0>>
    /\ scan = 0
    /\ walkable = <<>>
    /\ collision_grid = NoFn
    /\ ran = {}
    /\ ObsFmtIdle
    /\ AuxIdle

\* get_navigation_instructions, lines 91-129: result['next_move']
NavigationCall ==
    /\ entry = "nav"
    /\ pc = "call"
    /\ next_move' = calculate_next_move(player[1], player[2], target[1], target[2], mem_adj)
    /\ pc' = "done"
    /\ UNCHANGED <<entry, player, target, map_width, map_height, npcs, collision_map,
                   searchVars, gridVars, obsVars, fmtVars, histVars,
                   loopVars, promptVars, current_pos, execVars, viewVars, rewardVars>>

\* the caller moves on to another position and asks again
NavigationAgain ==
    /\ entry = "nav"
    /\ pc = "done"
    /\ \E pl \in ExitCoords, adj \in AdjBytes :
          /\ manhattan_distance_pos(pl, player) = 1
          /\ player' = pl
          /\ mem_adj' = adj
    /\ pc' = "call"
    /\ UNCHANGED <<entry, target, map_width, map_height, npcs, collision_map,
                   searchVars, radius, mem_block, mem_attr, fail_kind, fail_pos, scan,
                   walkable, collision_grid, ran, obsVars, fmtVars, histVars, auxVars>>

NextNav ==
    \/ NavigationCall
    \/ NavigationAgain

NavSpec == InitNav /\ [][NextNav]_vars

\* ------------------------------------------------------------------ executing generated code
\* what the code handed to execute_pathfinding_code does: raise before or
\* after binding 'path', bind nothing, bind a list of directions, or bind a
\* value without a length (a number, None)
CodeKinds == {"raises", "path_then_raises", "no_path", "path_list", "path_no_len"}

Codes ==
    {[kind |-> k, value |-> <<>>] : k \in {"raises", "no_path"}}
        \cup {[kind |-> k, value |-> p] :
                 k \in {"path_then_raises", "path_list"}, p \in PathsUpTo(MaxPathLen)}
        \cup {[kind |-> "path_no_len", value |-> v] : v \in {"5", "None"}}

InitExec ==
    /\ entry = "exec"
    /\ BaseIdle
    /\ LoopIdle
    /\ PromptIdle
    /\ NavIdle
    /\ exec_code \in Codes
    /\ exec_result = NewExecResult
    /\ ViewIdle
    /\ RewardIdle

\* execute_pathfinding_code, lines 185-203
ExecuteCode ==
    /\ entry = "exec"
    /\ pc = "off"
    /\ exec_result' =
          CASE exec_code.kind \in {"raises", "path_then_raises"} ->
                  [NewExecResult EXCEPT !.error = "Execution error"]
            [] exec_code.kind = "no_path" ->
                  [NewExecResult EXCEPT !.error = "Code did not create 'path' variable"]
            [] exec_code.kind = "path_list" ->
                  [success |-> TRUE, error |-> "None", path |-> exec_code.value,
                   distance |-> Len(exec_code.value)]
            [] exec_code.kind = "path_no_len" ->
                  [success |-> TRUE, error |-> "Execution error", path |-> exec_code.value]
    /\ pc' = "done"
    /\ UNCHANGED <<entry, player, target, map_width, map_height, npcs, collision_map,
                   searchVars, gridVars, obsVars, fmtVars, histVars,
                   loopVars, promptVars, navVars, exec_code, viewVars, rewardVars>>

NextExec == ExecuteCode

ExecSpec == InitExec /\ [][NextExec]_vars

\* ------------------------------------------------------------------ map size of the table view
\* markdown_vision.py:38 and 44-45: largest map size create_map_table trusts
DimCap == 32

\* create_map_table, lines 23-46: the map width and height it uses, from the
\* bytes at 0xD4B1/0xD4B2 (raw) and 0xD4B3/0xD4B4 (alt)
TableMapSize(raw, alt) ==
    IF alt[1] < raw[1] /\ alt[1] > 0 /\ alt[1] < DimCap
    THEN alt
    ELSE <<Min(raw[1], DimCap), Min(raw[2], DimCap)>>

\* memory states seen by create_map_table and create_pathfinding_data: map_width
\* and map_height are the bytes at 0xD4B1/0xD4B2, which create_pathfinding_data
\* uses as they are (lines 379-380)
InitView ==
    /\ entry = "view"
    /\ pc = "call"
    /\ player \in ExitCoords
    /\ map_width \in (1 .. MaxW) \cup {DimCap, DimCap + 1, 140}
    /\ map_height \in (1 .. MaxH) \cup {DimCap, 80}
    /\ collision_map = NoFn
    /\ SearchIdle
    /\ GridIdle
    /\ ObsFmtIdle
    /\ LoopIdle
    /\ PromptIdle
    /\ NavIdle
    /\ ExecIdle
    /\ mem_alt_size \in {0, 1, 2, 10, DimCap - 1, DimCap} \X {0, 1, 9}
    /\ view_size = <<0, 0>>
    /\ RewardIdle

\* create_map_table, lines 21-46 and 78-79
CreateMapTable ==
    /\ entry = "view"
    /\ pc = "call"
    /\ view_size' = TableMapSize(<<map_width, map_height>>, mem_alt_size)
    /\ pc' = "done"
    /\ UNCHANGED <<entry, player, target, map_width, map_height, npcs, collision_map,
                   searchVars, gridVars, obsVars, fmtVars, histVars,
                   loopVars, promptVars, navVars, execVars, mem_alt_size, rewardVars>>

NextView == CreateMapTable

ViewSpec == InitView /\ [][NextView]_vars

\* ------------------------------------------------------------------ reward tracker
\* calls of RewardTracker.update in a run
MaxUpdates == 3

\* reward_tracker.py:51, a milestone reward every 100 steps
StepMilestone == 100

\* (map_group, map_number, x, y) of the player in a game state: two tiles of
\* one map and a tile of another map
TrackedPositions == {<<0, 0, 0, 0>>, <<0, 0, 1, 0>>, <<0, 1, 0, 0>>}

\* game states: the position, and the totals of badges, party and pokedex
GameStates ==
    {[pos |-> p, badges |-> b, party |-> c, owned |-> o] :
        p \in TrackedPositions, b \in {0, 1}, c \in {0, 1}, o \in {0, 1}}

MapOf(pos) == <<pos[1], pos[2]>>

Reward(type, points) == [type |-> type, points |-> points]

\* the rewards of lines 30-45 for the position, in the order they are appended
ExplorationRewards(t, cur_pos) ==
    (IF cur_pos \notin t.visited_tiles THEN <<Reward("NEW_TILE", 1)>> ELSE <<>>)
        \o (IF MapOf(cur_pos) \notin t.visited_maps
            THEN <<Reward("NEW_MAP", 50)>> ELSE <<>>)

\* lines 48-56: whether the update counts a step, and the milestone reward
CountsStep(t, cur_pos) == t.last_position # <<>> /\ t.last_position # cur_pos

StepRewards(t, cur_pos) ==
    IF CountsStep(t, cur_pos) /\ (t.total_steps + 1) % StepMilestone = 0
    THEN <<Reward("STEP_MILESTONE", 10)>> ELSE <<>>

\* lines 59-89: rewards for a grown total
GainReward(type, each, current, last) ==
    IF current > last THEN <<Reward(type, each * (current - last))>> ELSE <<>>

ProgressRewards(t, gs) ==
    GainReward("BADGE", 500, gs.badges, t.last_badges)
        \o GainReward("POKEMON", 100, gs.party, t.last_party_count)
        \o GainReward("POKEDEX", 25, gs.owned, t.last_pokedex_owned)

Larger(a, b) == IF a > b THEN a ELSE b

\* mutant: the first update counts a step as well
UpdateCountingFirst(t, gs) ==
    LET earned == ExplorationRewards(t, gs.pos) \o StepRewards(t, gs.pos)
                      \o ProgressRewards(t, gs)
    IN  [tracker |->
            [visited_tiles |-> t.visited_tiles \cup {gs.pos},
             visited_maps |-> t.visited_maps \cup {MapOf(gs.pos)},
             total_steps |-> IF t.last_position # gs.pos
                             THEN t.total_steps + 1 ELSE t.total_steps,
             last_position |-> gs.pos,
             last_badges |-> Larger(gs.badges, t.last_badges),
             last_party_count |-> Larger(gs.party, t.last_party_count),
             last_pokedex_owned |-> Larger(gs.owned, t.last_pokedex_owned),
             rewards |-> t.rewards \o earned],
         earned |-> earned]

\* RewardTracker.update, lines 17-97: the tracker after the call and the
\* value returned
Update(t, gs) ==
    LET earned == ExplorationRewards(t, gs.pos) \o StepRewards(t, gs.pos)
                      \o ProgressRewards(t, gs)
    IN  [tracker |->
            [visited_tiles |-> t.visited_tiles \cup {gs.pos},
             visited_maps |-> t.visited_maps \cup {MapOf(gs.pos)},
             total_steps |-> IF CountsStep(t, gs.pos)
                             THEN t.total_steps + 1 ELSE t.total_steps,
             last_position |-> gs.pos,
             last_badges |-> Larger(gs.badges, t.last_badges),
             last_party_count |-> Larger(gs.party, t.last_party_count),
             last_pokedex_owned |-> Larger(gs.owned, t.last_pokedex_owned),
             rewards |-> t.rewards \o earned],
         earned |-> earned]

\* RewardTracker.__init__, lines 7-15
InitReward ==
    /\ entry = "reward"
    /\ BaseIdle
    /\ LoopIdle
    /\ PromptIdle
    /\ NavIdle
    /\ ExecIdle
    /\ ViewIdle
    /\ tracker = NewTracker
    /\ rewards_earned = <<>>
    /\ updates = <<>>

\* a call of update with a game state
UpdateCall ==
    /\ entry = "reward"
    /\ Len(updates) < MaxUpdates
    /\ \E gs \in GameStates :
          LET r == Update(tracker, gs)
          IN  /\ tracker' = r.tracker
              /\ rewards_earned' = r.earned
              /\ updates' = Append(updates, gs.pos)
    /\ UNCHANGED <<baseVars, loopVars, promptVars, navVars, execVars, viewVars>>

NextReward == UpdateCall

RewardSpec == InitReward /\ [][NextReward]_vars

\* ------------------------------------------------------------------ claims

Move(p, d) ==
    CASE d = "up"    -> <<p[1], p[2] - 1>>
      [] d = "down"  -> <<p[1], p[2] + 1>>
      [] d = "left"  -> <<p[1] - 1, p[2]>>
      [] d = "right" -> <<p[1] + 1, p[2]>>

\* the position reached from p after the first k moves of seq
RECURSIVE PosAfter(_, _, _)
PosAfter(p, seq, k) == IF k = 0 THEN p ELSE Move(PosAfter(p, seq, k - 1), seq[k])

Adjacent(p) == {<<p[1], p[2] - 1>>, <<p[1], p[2] + 1>>, <<p[1] - 1, p[2]>>, <<p[1] + 1, p[2]>>}

InGrid(p) == 0 <= p[1] /\ p[1] < map_width /\ 0 <= p[2] /\ p[2] < map_height

Passable(p) == InGrid(p) /\ p \notin obstacles

\* breadth-first search by levels; -1 when the frontier dies out
RECURSIVE BFSLevel(_, _, _)
BFSLevel(frontier, visited, d) ==
    IF target \in frontier THEN d
    ELSE IF frontier = {} THEN -1
    ELSE LET nxt == {n \in UNION {Adjacent(p) : p \in frontier} :
                        Passable(n) /\ n \notin visited}
         IN  BFSLevel(nxt, visited \cup nxt, d + 1)

\* length of a shortest sequence of cardinal moves from player to target
\* through in-bounds, non-obstacle cells; -1 when there is none
ShortestLen == IF Passable(target) THEN BFSLevel({player}, {player}, 0) ELSE -1

AstarReturned == pc \in {"returned", "done"}

\* C1: whenever the goal is reachable from the start through in-bounds,
\* non-obstacle cells, the path astar_pathfind returns has the length of a
\* shortest such path (the BFS distance); with the wall x=12, y=9..11 between
\* (10,10) and (15,10) it is longer than 5.
C1_ShortestPath ==
    AstarReturned =>
        /\ ShortestLen >= 0 => Len(path) = ShortestLen
        /\ (entry = "astar" /\ obstacles = TestWall) => Len(path) > 5

\* the wall test has returned its detour
C1_Witness ==
    /\ AstarReturned
    /\ entry = "astar"
    /\ obstacles = TestWall
    /\ ret = "found"
    /\ Len(path) = 9

\* C2: no position reached by a move of a path returned by
\* calculate_path_from_data is blocked in the collision map, out of bounds,
\* or occupied by an NPC.
C2_PathAvoidsObstacles ==
    (entry = "plan" /\ pc = "done") =>
        \A k \in 1 .. Len(plan_result.path) :
            LET p == PosAfter(player, plan_result.path, k)
            IN  /\ InGrid(p)
                /\ collision_map[p] # "True"
                /\ p \notin npcs

\* a returned plan that had to go around an NPC and a blocked tile
C2_Witness ==
    /\ entry = "plan"
    /\ pc = "done"
    /\ npcs # {}
    /\ \E c \in DOMAIN collision_map : collision_map[c] = "True"
    /\ Len(plan_result.path) > manhattan_distance(player[1], player[2], target[1], target[2])

\* C3: a non-empty path returned by astar_pathfind consists of cardinal moves
\* and, applied from the start, ends at the goal.
C3_PathReachesGoal ==
    (AstarReturned /\ Len(path) > 0) =>
        /\ \A k \in 1 .. Len(path) : path[k] \in Dirs
        /\ PosAfter(player, path, Len(path)) = target

\* a returned path that uses a vertical and a horizontal move
C3_Witness ==
    /\ AstarReturned
    /\ Len(path) >= 3
    /\ \E i, j \in 1 .. Len(path) : path[i] \in {"up", "down"} /\ path[j] \in {"left", "right"}

\* C4: without obstacles and with start and goal in bounds the returned path
\* has the Manhattan length; (10,10) -> (15,10) gives five times "right".
C4_ManhattanOnFreeGrid ==
    (/\ AstarReturned
     /\ obstacles = {}
     /\ InGrid(player)
     /\ InGrid(target)) =>
        /\ Len(path) = Abs(player[1] - target[1]) + Abs(player[2] - target[2])
        /\ (player = <<10, 10>> /\ target = <<15, 10>>) =>
               path = <<"right", "right", "right", "right", "right">>

\* the straight-line test has returned
C4_Witness ==
    /\ AstarReturned
    /\ obstacles = {}
    /\ player = <<10, 10>>
    /\ target = <<15, 10>>
    /\ Len(path) = 5

\* C5: every call of astar_pathfind returns; when the goal is a free cell
\* that no traversable cell connects to the start, it returns the empty path
\* from line 83 with the open set exhausted.
C5_Terminates ==
    /\ (pc = "astar") ~> (pc = "returned")
    /\ [](AstarReturned /\ Passable(target) /\ ShortestLen = -1 =>
            ret = "exhausted" /\ path = <<>> /\ open_set = {})

\* a search that exhausted the open set after expanding several cells
C5_Witness ==
    /\ AstarReturned
    /\ Passable(target)
    /\ ShortestLen = -1
    /\ ret = "exhausted"
    /\ Len(popped) >= 2

\* C6: when the goal is an obstacle or out of bounds, astar_pathfind returns
\* the empty path without pushing, popping or scoring any node.
C6_InvalidGoalFailsFast ==
    (/\ pc \in {"loop", "returned", "done"}
     /\ (target \in obstacles \/ ~InGrid(target))) =>
        /\ pc # "loop"
        /\ path = <<>>
        /\ ret \in {"goal_obstacle", "goal_out_of_bounds"}
        /\ pushed = <<>>
        /\ popped = <<>>
        /\ open_set = {}
        /\ DOMAIN g_score = {}
        /\ DOMAIN came_from = {}

\* a call whose goal lies just beyond the right edge has returned
C6_Witness ==
    /\ pc = "returned"
    /\ target[1] = map_width
    /\ target \notin obstacles
    /\ ret = "goal_out_of_bounds"

\* C7: a repeated call with the same start, goal, obstacles and map size
\* returns the same sequence of directions as the first call.
C7_Deterministic ==
    (calls = 2 /\ AstarReturned) =>
        /\ path = first_path
        /\ pc = "done" => plan_result.path = first_path

\* a repeated call that returned a path of several moves
C7_Witness ==
    /\ calls = 2
    /\ pc = "done"
    /\ Len(first_path) >= 2
    /\ plan_result.path = first_path

Last(seq) == seq[Len(seq)]

C9_AdjacencyWins ==
    (entry = "grid" /\ pc \in {"grid_scan", "grid_except", "grid_done"}) =>
        \A d \in Dirs :
            /\ AdjPos(player, d) \in DOMAIN collision_map
            /\ collision_map[AdjPos(player, d)] =
                  (IF mem_adj[d] = 0 THEN "False" ELSE "True")

\* a finished grid in which the tileset data call an in-bounds neighbor
\* walkable that the adjacency byte reports blocked
C9_Witness ==
    /\ entry = "grid"
    /\ pc = "grid_done"
    /\ radius >= 1
    /\ \E d \in Dirs :
          /\ mem_adj[d] # 0
          /\ InGrid(AdjPos(player, d))
          /\ mem_attr[mem_block[AdjPos(player, d)[2] * map_width + AdjPos(player, d)[1]]] = 0
          /\ collision_map[AdjPos(player, d)] = "True"

\* C10: a raw adjacency byte is classified walkable iff it is 0x00, by each
\* of collision.py, smart_pathfinding.py and markdown_vision.py, for every
\* value 0..255.
C10_WalkableIffZero ==
    entry = "classify" =>
        \A d \in Dirs :
            /\ "collision" \in ran =>
                  ((\E i \in 1 .. Len(walkable) : walkable[i] = d) <=> mem_adj[d] = 0)
            /\ "smart" \in ran =>
                  collision_grid[AdjPos(player, d)] =
                      (IF mem_adj[d] = 0 THEN "walkable" ELSE "blocked")
            /\ pc = "grid_scan" =>
                  collision_map[AdjPos(player, d)] =
                      (IF mem_adj[d] = 0 THEN "False" ELSE "True")

\* the three classifiers have run on the byte 0x01 and all call it blocked
C10_Witness ==
    /\ entry = "classify"
    /\ ran = {"collision", "smart"}
    /\ pc = "grid_scan"
    /\ mem_adj.up = 1
    /\ \A i \in 1 .. Len(walkable) : walkable[i] # "up"
    /\ collision_grid[AdjPos(player, "up")] = "blocked"
    /\ collision_map[AdjPos(player, "up")] = "True"

\* C11: every position whose collision_map value is 'unknown' is in the
\* obstacle set calculate_path_from_data hands to astar_pathfind, and no
\* position reached by a move of the returned path has the value 'unknown'.
C11_UnknownIsObstacle ==
    (entry = "plan" /\ pc \in {"astar", "loop", "returned", "done"}) =>
        /\ \A p \in DOMAIN collision_map :
              collision_map[p] = "unknown" => p \in obstacles
        /\ pc = "done" =>
              \A k \in 1 .. Len(plan_result.path) :
                  LET p == PosAfter(player, plan_result.path, k)
                  IN  p \in DOMAIN collision_map => collision_map[p] # "unknown"

\* a returned plan that is longer than the Manhattan distance because an
\* unknown tile, the only obstacle, lies between start and goal
C11_Witness ==
    /\ entry = "plan"
    /\ pc = "done"
    /\ npcs = {}
    /\ \A c \in DOMAIN collision_map : collision_map[c] # "True"
    /\ \E c \in DOMAIN collision_map : collision_map[c] = "unknown"
    /\ plan_result.success
    /\ Len(plan_result.path) > manhattan_distance(player[1], player[2], target[1], target[2])

TargetIsWarp == \E i \in 1 .. Len(warps) : warps[i] = target

\* C12: when the goal is one of the waypoints of the observation and lies in
\* bounds, it is not in the obstacle set handed to astar_pathfind, whatever
\* the collision map says of it and whether or not an NPC stands on it, and
\* the search does not return at the invalid-goal test.
C12_WaypointGoalEnterable ==
    (/\ entry = "pipe"
     /\ pc \in {"astar", "loop", "returned", "done"}
     /\ TargetIsWarp
     /\ InGrid(target)) =>
        /\ target \notin obstacles
        /\ ret # "goal_obstacle"

\* the heuristic classifier has no data for tile p: its block index is past
\* the limit, or a memory read for it raises
NoData(p) ==
    \/ p[2] * map_width + p[1] >= BlockIndexLimit
    \/ fail_kind \in {"block", "attr"} /\ fail_pos = p

\* C13: get_collision_map returns a grid with an entry for every window
\* position, and the entry of every in-bounds window position that is not
\* adjacent to the reference position and for which the heuristic classifier
\* has no data is 'unknown'.
C13_NoDataIsUnknown ==
    (entry = "grid" /\ pc = "grid_done") =>
        \A dx \in -radius .. radius, dy \in -radius .. radius :
            LET p == <<player[1] + dx, player[2] + dy>>
            IN  /\ p \in DOMAIN collision_map
                /\ (p \notin Adjacent(player) /\ InGrid(p) /\ NoData(p)) =>
                      collision_map[p] = "unknown"

\* a returned grid whose read of the block of an in-bounds diagonal tile
\* raised after other tiles had been classified
C13_Witness ==
    /\ entry = "grid"
    /\ pc = "grid_done"
    /\ radius >= 1
    /\ fail_kind = "block"
    /\ fail_pos = <<player[1] + 1, player[2] + 1>>
    /\ InGrid(fail_pos)
    /\ collision_map[fail_pos] = "unknown"
    /\ collision_map[player] \in {"True", "False"}

\* the square of side 2*radius+1 centered on the reference position
SquareWindow ==
    {<<player[1] + dx, player[2] + dy>> : dx \in -radius .. radius, dy \in -radius .. radius}

\* C14 as stated: for every radius >= 0 the grid built by get_collision_map
\* has an entry for exactly the positions of the square window.
C14_GridIsWindow ==
    (entry = "grid" /\ pc = "grid_done") => DOMAIN collision_map = SquareWindow

\* C14, amended: the grid has an entry, one of True, False and 'unknown', for
\* exactly the positions of the square window and the four tiles adjacent to
\* the reference position; for every radius >= 1 that is exactly the window.
C14_GridIsWindowAndAdjacent ==
    (entry = "grid" /\ pc = "grid_done") =>
        /\ DOMAIN collision_map = SquareWindow \cup Adjacent(player)
        /\ \A p \in DOMAIN collision_map : collision_map[p] \in {"True", "False", "unknown"}
        /\ radius >= 1 => DOMAIN collision_map = SquareWindow

\* a grid returned for radius 0: five entries for a window of one tile
C14_Witness ==
    /\ entry = "grid"
    /\ pc = "grid_done"
    /\ radius = 0
    /\ Cardinality(DOMAIN collision_map) = 5
    /\ Cardinality(SquareWindow) = 1

\* C15: every position astar_pathfind pushes on or pops from the open set
\* lies in the window (reference position +/- radius) of the collision grid
\* the plan was made from.
C15_SearchStaysInWindow ==
    entry = "pipe" =>
        /\ \A i \in 1 .. Len(pushed) : <<pushed[i][3], pushed[i][4]>> \in SquareWindow
        /\ \A i \in 1 .. Len(popped) : <<popped[i][3], popped[i][4]>> \in SquareWindow

IsDigit(c) == \E d \in 1 .. 10 : Digits[d] = c

DigitValue(c) == (CHOOSE d \in 1 .. 10 : Digits[d] = c) - 1

\* the number written from index i of s: <<value, index after its last digit>>
RECURSIVE ReadNumber(_, _, _)
ReadNumber(s, i, acc) ==
    IF i <= Len(s) /\ IsDigit(s[i])
    THEN ReadNumber(s, i + 1, acc * 10 + DigitValue(s[i]))
    ELSE <<acc, i>>

\* the runs <<count, direction>> written in a summary "3 up, then 1 left"
\* from index i
RECURSIVE SummaryRuns(_, _)
SummaryRuns(s, i) ==
    IF i > Len(s) THEN <<>>
    ELSE LET num == ReadNumber(s, i, 0)
             next == num[2] + 2
         IN  <<<<num[1], s[num[2] + 1]>>>> \o
                 (IF next <= Len(s) THEN SummaryRuns(s, next + 1) ELSE <<>>)

ParseSummary(s) == IF s = <<"No path">> THEN <<>> ELSE SummaryRuns(s, 1)

Lower(w) ==
    CASE w = "UP" -> "up"
      [] w = "DOWN" -> "down"
      [] w = "LEFT" -> "left"
      [] w = "RIGHT" -> "right"

\* the runs written in instructions "UP 3 times, then LEFT 1 time" from
\* index i
RECURSIVE InstructionRuns(_, _)
InstructionRuns(s, i) ==
    IF i > Len(s) THEN <<>>
    ELSE LET num == ReadNumber(s, i + 2, 0)
             afterTime == num[2] + 2
             next == IF afterTime <= Len(s) /\ s[afterTime] = "s"
                     THEN afterTime + 1 ELSE afterTime
         IN  <<<<num[1], Lower(s[i])>>>> \o
                 (IF next <= Len(s) THEN InstructionRuns(s, next + 1) ELSE <<>>)

ParseInstructions(s) ==
    IF s = <<"You are at the exit!">> THEN <<>> ELSE InstructionRuns(s, 2)

\* the sequence of directions a list of runs stands for
RECURSIVE ExpandRuns(_)
ExpandRuns(runs) ==
    IF Len(runs) = 0 THEN <<>>
    ELSE [k \in 1 .. runs[1][1] |-> runs[1][2]] \o ExpandRuns(Tail(runs))

RECURSIVE SumCounts(_)
SumCounts(runs) == IF Len(runs) = 0 THEN 0 ELSE runs[1][1] + SumCounts(Tail(runs))

\* the runs regenerate the path in order, are maximal, and count its moves
RunsOf(runs, p) ==
    /\ ExpandRuns(runs) = p
    /\ \A k \in 1 .. Len(runs) : runs[k][1] >= 1 /\ runs[k][2] \in Dirs
    /\ \A k \in 1 .. Len(runs) - 1 : runs[k][2] # runs[k + 1][2]
    /\ SumCounts(runs) = Len(p)

\* C16: for every path over {up, down, left, right}, the empty path
\* included, the runs written in the summary of simplify_path and in the
\* instructions of format_path_instructions expand to exactly the path: they
\* appear in order, are maximal, and their counts sum to the path length.
C16_SummaryRoundTrip ==
    entry = "format" =>
        /\ summary # <<>> => RunsOf(ParseSummary(summary), path)
        /\ instructions # <<>> => RunsOf(ParseInstructions(instructions), path)

\* both summaries of a path with a run of count 12 followed by a turn
C16_Witness ==
    /\ entry = "format"
    /\ Len(path) = 13
    /\ summary = <<"1", "2", " ", "right", ", then ", "1", " ", "up">>
    /\ instructions = <<"Go ", "RIGHT", " ", "1", "2", " ", "time", "s", ", then ",
                        "UP", " ", "1", " ", "time">>

\* C17: whenever astar_pathfind reached the goal, the result of
\* calculate_path_from_data is a success; with start equal to the goal it
\* is a success with the empty path and distance 0.
C17_GoalReachedIsSuccess ==
    (entry = "plan" /\ pc = "done" /\ ret = "found") =>
        /\ plan_result.success
        /\ player = target => plan_result.path = <<>> /\ plan_result.distance = 0

InvalidGoal(r) == r \in {"goal_obstacle", "goal_out_of_bounds"}

\* C18: the result of a plan that failed because the goal is an obstacle or
\* out of bounds is never the same value as the result of a plan that failed
\* because the open set was exhausted.
C18_FailuresDistinguishable ==
    (/\ entry = "plan"
     /\ pc = "done"
     /\ calls = 2
     /\ \/ InvalidGoal(first_ret) /\ ret = "exhausted"
        \/ first_ret = "exhausted" /\ InvalidGoal(ret)) =>
        plan_result # first_result

NoDuplicate(list) == \A i, j \in 1 .. Len(list) : list[i] = list[j] => i = j

\* C19: the NPC list and the warp list of an observation hold no position
\* twice and no position outside [0, map_width) x [0, map_height).
C19_ListsDeduplicatedInBounds ==
    (entry = "pipe" /\ pc # "cpd") =>
        /\ NoDuplicate(npc_list)
        /\ NoDuplicate(warps)
        /\ \A i \in 1 .. Len(npc_list) : InGrid(npc_list[i])
        /\ \A i \in 1 .. Len(warps) : InGrid(warps[i])

\* C20: when the reference position read for an observation lies outside the
\* map bounds, the plan made from it fails: it is not a success and carries
\* no path.
C20_StartOutOfBoundsRejected ==
    (entry = "pipe" /\ pc = "done" /\ ~InGrid(player)) =>
        /\ ~plan_result.success
        /\ plan_result.path = <<>>

\* C21: no emulator tick is applied between the memory reads of one
\* observation.
C21_ObservationAtomic == entry = "loop" => ~obs_torn

\* C22: a load of a type already loaded since the last reload returns the text
\* of that earlier load and reads no file; a reload empties the cache; the
\* first load of a type after a reload (or after construction) reads its file
\* once; and every load of a type whose file was not edited returns the
\* file's content.
C22_CachedUntilReload ==
    [][prompt_result'.calls = prompt_result.calls + 1 =>
         LET t == prompt_result'.type
             loaded == DOMAIN prompt_result.since
         IN  /\ prompt_result'.op = "reload" =>
                   /\ prompt_cache' = NoFn
                   /\ file_reads' = file_reads
             /\ (prompt_result'.op = "load" /\ t \in loaded) =>
                   /\ prompt_result'.text = prompt_result.since[t]
                   /\ file_reads' = file_reads
             /\ (prompt_result'.op = "load" /\ t \notin loaded
                    /\ prompt_files[t] # "missing") =>
                   /\ file_reads' = file_reads + 1
                   /\ prompt_result'.text = prompt_files[t]
             /\ (prompt_result'.op = "load" /\ t \notin file_edited
                    /\ prompt_files[t] # "missing") =>
                   prompt_result'.text = prompt_files[t]]_vars

\* load, load, reload, load of one type: one file read before the reload, two
\* after the last load
C22_Witness ==
    /\ entry = "prompt"
    /\ prompt_result.calls = 4
    /\ prompt_result.op = "load"
    /\ prompt_result.type = "SYSTEM"
    /\ prompt_result.text = "v1"
    /\ file_reads = 2
    /\ DOMAIN prompt_cache = {"SYSTEM"}

\* the position reached from pos by the first n moves of p
RECURSIVE Walk(_, _, _)
Walk(pos, p, n) ==
    IF n = 0 THEN pos
    ELSE LET q == Walk(pos, p, n - 1)
         IN  CASE p[n] = "right" -> <<q[1] + 1, q[2]>>
               [] p[n] = "left" -> <<q[1] - 1, q[2]>>
               [] p[n] = "down" -> <<q[1], q[2] + 1>>
               [] p[n] = "up" -> <<q[1], q[2] - 1>>

\* every move of the path built so far brings the position one step closer to
\* the exit, horizontal moves come before vertical moves, and the returned
\* path has |dx| + |dy| moves and ends at the exit
ExitPathGreedy ==
    entry = "exit" =>
        /\ \A i \in 1 .. Len(path) :
              manhattan_distance_pos(Walk(player, path, i), target)
                  = manhattan_distance_pos(Walk(player, path, i - 1), target) - 1
        /\ \A i, j \in 1 .. Len(path) :
              (i < j /\ path[i] \in {"up", "down"}) => path[j] \in {"up", "down"}
        /\ pc = "done" =>
              /\ Len(path) = Abs(target[1] - player[1]) + Abs(target[2] - player[2])
              /\ Walk(player, path, Len(path)) = target

\* C23: get_path_to_exit terminates; its path has |dx| + |dy| moves, the
\* horizontal ones first, each one step closer to the exit, and ends at the
\* exit, whatever tiles are blocked.
C23_GreedyPathReachesExit == []ExitPathGreedy /\ <>(pc = "done")

\* a returned path with both kinds of moves that walks over a blocked tile
C23_Witness ==
    /\ entry = "exit"
    /\ pc = "done"
    /\ player = <<0, 0>>
    /\ target = <<2, 2>>
    /\ path = <<"right", "right", "down", "down">>
    /\ <<1, 0>> \in obstacles

\* the direction toward the target on the axis calculate_next_move tries
\* first, and the one on the other axis; "None" when that delta is zero
TowardHorizontal == IF target[1] > player[1] THEN "right"
                    ELSE IF target[1] < player[1] THEN "left" ELSE "None"

TowardVertical == IF target[2] > player[2] THEN "down"
                  ELSE IF target[2] < player[2] THEN "up" ELSE "None"

HorizontalFirst == Abs(target[1] - player[1]) > Abs(target[2] - player[2])

PrimaryMove == IF HorizontalFirst THEN TowardHorizontal ELSE TowardVertical

SecondaryMove == IF HorizontalFirst THEN TowardVertical ELSE TowardHorizontal

Open(d) == d # "None" /\ mem_adj[d] = 0

\* C24: the direction returned has adjacency byte 0x00; None is returned
\* exactly when no direction has; when a direction toward the target is
\* walkable the result is such a direction, the one on the axis with the
\* larger distance if it is walkable (the vertical one on a tie).
C24_NextMoveWalkable ==
    (entry = "nav" /\ pc = "done") =>
        /\ next_move # "None" => (next_move \in Dirs /\ mem_adj[next_move] = 0)
        /\ next_move = "None" <=> \A d \in Dirs : mem_adj[d] # 0
        /\ (Open(TowardHorizontal) \/ Open(TowardVertical)) =>
              /\ next_move \in {TowardHorizontal, TowardVertical}
              /\ Open(PrimaryMove) => next_move = PrimaryMove
              /\ ~Open(PrimaryMove) => next_move = SecondaryMove

\* a tie of the two distances with both directions walkable: vertical wins
C24_Witness ==
    /\ entry = "nav"
    /\ pc = "done"
    /\ player = <<0, 0>>
    /\ target = <<1, 1>>
    /\ mem_adj["right"] = 0
    /\ mem_adj["down"] = 0
    /\ next_move = "down"

\* breadth-first search from the frontier to goal through passable cells
RECURSIVE DistanceLevel(_, _, _, _)
DistanceLevel(frontier, visited, d, goal) ==
    IF goal \in frontier THEN d
    ELSE IF frontier = {} THEN -1
    ELSE LET nxt == {n \in UNION {Adjacent(p) : p \in frontier} :
                        Passable(n) /\ n \notin visited}
         IN  DistanceLevel(nxt, visited \cup nxt, d + 1, goal)

\* length of a shortest sequence of moves from the start to goal
TrueDistance(goal) == DistanceLevel({player}, {player}, 0, goal)

PoppedPos(i) == <<popped[i][3], popped[i][4]>>

\* C25: during a search the g_score of every scored position is the length
\* of its came_from chain, which leads back to the start; the start has no
\* came_from entry; every node is pushed with priority g plus the Manhattan
\* distance to the goal, which never exceeds the true remaining distance and
\* changes by at most one per move, and the priorities popped never decrease;
\* every popped g is the true shortest distance of its position from the
\* start; and no position is popped a second time, so no pop changes the
\* score or the predecessor of a position scored before.
C25_ScoresAreDistances ==
    (entry \in {"plan", "astar"} /\ pc \in {"loop", "returned"}) =>
        /\ \A p \in DOMAIN g_score :
              LET chain == reconstruct_path(came_from, p, player)
              IN  /\ g_score[p] = Len(chain)
                  /\ PosAfter(player, chain, Len(chain)) = p
        /\ player \notin DOMAIN came_from
        /\ DOMAIN came_from \subseteq DOMAIN g_score
        /\ \A i \in 2 .. Len(pushed) :
              pushed[i][1] = pushed[i][2] + Abs(pushed[i][3] - target[1])
                                          + Abs(pushed[i][4] - target[2])
        /\ \A i \in 1 .. Len(popped) - 1 : popped[i][1] <= popped[i + 1][1]
        /\ \A i \in 1 .. Len(popped) :
              /\ popped[i][2] = TrueDistance(PoppedPos(i))
              /\ \A j \in 1 .. Len(popped) : i # j => PoppedPos(i) # PoppedPos(j)
        /\ \A p \in DOMAIN g_score :
              LET remaining == DistanceLevel({p}, {p}, 0, target)
              IN  remaining >= 0 =>
                      Abs(p[1] - target[1]) + Abs(p[2] - target[2]) <= remaining

\* a search around an obstacle: a position two moves from the start was
\* popped after at least two others, and a position three moves away waits
\* in the open set
C25_Witness ==
    /\ entry \in {"plan", "astar"}
    /\ pc = "loop"
    /\ obstacles # {}
    /\ Len(popped) >= 3
    /\ popped[Len(popped)][2] = 2
    /\ \E e \in open_set : g_score[<<e[3], e[4]>>] = 3
    /\ Cardinality(DOMAIN came_from) >= 4

\* C26: the result of execute_pathfinding_code has success True only with
\* error None, and whenever it has an error its success is False and its
\* path is the empty list.
C26_PathOrError ==
    (entry = "exec" /\ pc = "done") =>
        /\ exec_result.success => exec_result.error = "None"
        /\ exec_result.error # "None" =>
              (~exec_result.success /\ exec_result.path = <<>>)

\* the AI threads that have not returned yet
RunningThreads == {t \in DOMAIN workers : workers[t].pc # "idle"}

\* requests that were started and whose response was not taken yet
Outstanding == Cardinality(RunningThreads) + Len(ai_queue)

\* C27: at most one AI request is running or waiting unconsumed in the queue,
\* so a thread is started only when there is none; the queue never holds more
\* than one response; the thinking flag is set exactly while a request is
\* outstanding; and every request started was consumed once or is still
\* outstanding.
C27_OneRequestOutstanding ==
    entry = "loop" =>
        /\ Outstanding <= 1
        /\ Len(ai_queue) <= 1
        /\ ai_thinking <=> Outstanding = 1
        /\ started = consumed + Outstanding

\* a second request is running after the first response was consumed
C27_Witness ==
    /\ entry = "loop"
    /\ started = 2
    /\ consumed = 1
    /\ RunningThreads # {}
    /\ ai_queue = <<>>

\* C28: whatever response was taken from the queue, a tool call with
\* malformed arguments included, the control loop is still running and the
\* thinking flag is cleared.
C28_LoopSurvivesResponse ==
    (entry = "loop" /\ consumed >= 1) =>
        /\ loop_pc # "stopped"
        /\ (Outstanding = 0 => ~ai_thinking)

\* C29: for one memory state the table view and the pathfinding data use the
\* same map width and height, so every tile around the player is in bounds
\* in the one exactly when it is in the other.
C29_SameMapSize ==
    (entry = "view" /\ pc = "done") =>
        /\ view_size = <<map_width, map_height>>
        /\ \A q \in Window(player, MaxRadius) :
              OutOfBounds(q[1], q[2], view_size[1], view_size[2])
                  <=> OutOfBounds(q[1], q[2], map_width, map_height)

RewardTypes(earned) == {earned[i].type : i \in 1 .. Len(earned)}

\* C30: the update returns NEW_TILE exactly when its position was in no
\* earlier update, NEW_MAP exactly when its map was in no earlier update; the
\* visited sets are the positions and maps of all updates so far (they only
\* grow); total_steps is the number of updates whose position differs from
\* the update before, the first update counting no step.
C30_RewardsOnFirstVisit ==
    (entry = "reward" /\ Len(updates) >= 1) =>
        LET n == Len(updates)
            cur_pos == updates[n]
        IN  /\ "NEW_TILE" \in RewardTypes(rewards_earned)
                  <=> \A i \in 1 .. n - 1 : updates[i] # cur_pos
            /\ "NEW_MAP" \in RewardTypes(rewards_earned)
                  <=> \A i \in 1 .. n - 1 : MapOf(updates[i]) # MapOf(cur_pos)
            /\ tracker.visited_tiles = {updates[i] : i \in 1 .. n}
            /\ tracker.visited_maps = {MapOf(updates[i]) : i \in 1 .. n}
            /\ tracker.total_steps
                  = Cardinality({i \in 2 .. n : updates[i] # updates[i - 1]})

\* back on the first tile after a tile of another map: two steps, no reward
\* for the tile or the map
C30_Witness ==
    /\ entry = "reward"
    /\ updates = <<(<<0, 0, 0, 0>>), (<<0, 1, 0, 0>>), (<<0, 0, 0, 0>>)>>
    /\ tracker.total_steps = 2
    /\ RewardTypes(rewards_earned) \cap {"NEW_TILE", "NEW_MAP"} = {}
    /\ Cardinality(tracker.visited_maps) = 2

====
